---- MODULE Spec2Model ----
(***************************************************************************)
(* The checklocks contract-checking engine applied to                       *)
(* pkg/resource/resource.go.                                                *)
(*                                                                          *)
(* The annotated program (fields, function annotations, function bodies)    *)
(* is transcribed from pkg/resource/resource.go; the report the analyzer    *)
(* prints for it is transcribed from README.md ("Annotated Linter Output"). *)
(* The engine itself (lock-state propagation, field/atomic checks, call     *)
(* site checks, exit check) is a state machine that walks the functions in  *)
(* source order, one instruction per step, and appends to the report.       *)
(* Besides the functions of the file, the engine is also run on one         *)
(* arbitrary function (index 0) whose contract and instructions are drawn   *)
(* from the vocabulary the file uses, up to MaxBody instructions.           *)
(* The pass covers the package: the functions of resource.go, then those of *)
(* resource_test.go.                                                        *)
(***************************************************************************)
EXTENDS Integers, Sequences, FiniteSets, TLC

VARIABLES
    fi,       \* index in Program of the function under analysis; 0 = the arbitrary function
    contract, \* FunctionContract of the function under analysis
    pc,       \* index of the next instruction of that function
    ls,       \* LockState at the current program point: lock -> mode
    report,   \* the diagnostics emitted so far, in order
    last,     \* the instruction processed by the last step
    pre,      \* LockState in front of that instruction
    emitted,  \* the diagnostics that instruction produced
    phase,    \* "run" | "done"
    expect,   \* +checklocksfail count waiting for its statement; 0 = none
    expected, \* the value of expect in front of the last instruction
    unmet,    \* the +checklocksfail expectations that were not met, in order
    status    \* completion status of the driver; -1 while the pass runs

avars == << fi, contract, pc, ls, report, last, pre, emitted, phase,
            expect, expected, unmet, status >>

(* The per-function analyses of the package run in parallel. *)
VARIABLES
    registry, \* the Contract Registry: function name -> FunctionContract
    base,     \* index in Program of the first function analyzed in parallel
    an,       \* function index -> its analysis: program point, state, findings
    merged,   \* the report merged from the findings of the analyses
    pphase    \* "idle" | "analyzing" | "merged"

pvars == << registry, base, an, merged, pphase >>

(* The program at run time: goroutines calling methods of one resource. *)
VARIABLES
    scenario, \* the calls the goroutines make, drawn when the program starts
    mem,      \* the fields of the resource: field -> value
    mutex,    \* the mutexes of the resource: lock -> [w: locked, r: readers]
    owner,    \* lock -> goroutine whose Lock call locked it last (0: none)
    gor,      \* goroutine -> its method, program point, arguments and locals
    fatal,    \* the fatal error that ended the program; "" while it runs
    foreign   \* locks that were unlocked by a goroutine that had not locked them

rvars == << scenario, mem, mutex, owner, gor, fatal, foreign >>

(* A control-flow merge point: the states of the incoming edges are joined. *)
VARIABLES
    incoming, \* the LockStates on the incoming edges of the merge point
    pending,  \* the incoming edges that are not combined yet
    joined    \* the LockState combined so far; << >> before the first edge

mvars == << incoming, pending, joined >>

\* What the sequential pass leaves alone.
others == << pvars, rvars, mvars >>

vars == << avars, pvars, rvars, mvars >>

\* Number of incoming edges of a merge point.
MaxPreds == 3

\* Number of goroutines.
NumGoroutines == 2

\* Number of calls of IncrementAtomicCorrect the goroutines make in all.
MaxIncrements == 3

\* Number of functions analyzed in parallel.
MaxParallel == 4

\* Longest body of the arbitrary function.
MaxBody == 3

-----------------------------------------------------------------------------
(* Data model *)

NotHeld == "NotHeld"
HeldShared == "HeldShared"
HeldExclusive == "HeldExclusive"
Modes == { NotHeld, HeldShared, HeldExclusive }

\* NotHeld < HeldShared < HeldExclusive
ModeRank(m) == CASE m = NotHeld -> 0 [] m = HeldShared -> 1 [] m = HeldExclusive -> 2

\* The mutex fields of ProtectedResource.
Locks == { "mu", "rwMu", "acquireReleaseMu" }

\* sync.Mutex is exclusive-only, sync.RWMutex is exclusive-or-shared.
LockKind(l) == IF l = "rwMu" THEN "RWMutex" ELSE "Mutex"

Fields == { "value", "description", "id", "readGuardedValue", "atomicValue",
            "mixedValue", "acquireReleaseValue" }

Guarded(l) == [kind |-> "Guarded", lock |-> l]
AtomicOnly == [kind |-> "AtomicOnly", lock |-> ""]
Mixed(l) == [kind |-> "Mixed", lock |-> l]
Unguarded == [kind |-> "None", lock |-> ""]

\* Mutants of the field annotations (an annotation dropped or misplaced).
FieldContractValueUnguarded(f) ==
    CASE f = "value" -> Unguarded
      [] f = "description" -> Guarded("mu")
      [] f = "id" -> Unguarded
      [] f = "readGuardedValue" -> Guarded("rwMu")
      [] f = "atomicValue" -> AtomicOnly
      [] f = "mixedValue" -> Mixed("mu")
      [] f = "acquireReleaseValue" -> Guarded("acquireReleaseMu")

FieldContractMixedAtomicOnly(f) ==
    CASE f = "value" -> Guarded("mu")
      [] f = "description" -> Guarded("mu")
      [] f = "id" -> Unguarded
      [] f = "readGuardedValue" -> Guarded("rwMu")
      [] f = "atomicValue" -> AtomicOnly
      [] f = "mixedValue" -> AtomicOnly
      [] f = "acquireReleaseValue" -> Guarded("acquireReleaseMu")

FieldContractAtomicUnannotated(f) ==
    CASE f = "value" -> Guarded("mu")
      [] f = "description" -> Guarded("mu")
      [] f = "id" -> Unguarded
      [] f = "readGuardedValue" -> Guarded("rwMu")
      [] f = "atomicValue" -> Unguarded
      [] f = "mixedValue" -> Mixed("mu")
      [] f = "acquireReleaseValue" -> Guarded("acquireReleaseMu")

\* The field annotations of type ProtectedResource.
FieldContract(f) ==
    CASE f = "value" -> Guarded("mu")
      [] f = "description" -> Guarded("mu")
      [] f = "id" -> Unguarded
      [] f = "readGuardedValue" -> Guarded("rwMu")
      [] f = "atomicValue" -> AtomicOnly
      [] f = "mixedValue" -> Mixed("mu")
      [] f = "acquireReleaseValue" -> Guarded("acquireReleaseMu")

NoContract == [kind |-> "None", lock |-> "", mode |-> NotHeld]
Requires(l, m) == [kind |-> "Requires", lock |-> l, mode |-> m]
Acquires(l) == [kind |-> "Acquires", lock |-> l, mode |-> HeldExclusive]
Releases(l) == [kind |-> "Releases", lock |-> l, mode |-> HeldExclusive]
Ignored == [kind |-> "Ignored", lock |-> "", mode |-> NotHeld]

\* Mutant: the +checklocks / +checklocksread annotations of the helpers removed.
FunctionContractHelpersUnannotated(name) ==
    CASE name = "AcquireAndSet" -> Acquires("acquireReleaseMu")
      [] name = "GetAndRelease" -> Releases("acquireReleaseMu")
      [] name = "FunctionToIgnore" -> Ignored
      [] OTHER -> NoContract

\* Mutant: the +checklocksignore annotation of FunctionToIgnore removed.
FunctionContractNothingIgnored(name) ==
    CASE name = "setDataLocked" -> Requires("mu", HeldExclusive)
      [] name = "readDataRLocked" -> Requires("rwMu", HeldShared)
      [] name = "AcquireAndSet" -> Acquires("acquireReleaseMu")
      [] name = "GetAndRelease" -> Releases("acquireReleaseMu")
      [] OTHER -> NoContract

\* Mutant: IncorrectSetData annotated +checklocks:pr.mu.
FunctionContractIncorrectSetDataAnnotated(name) ==
    CASE name \in { "setDataLocked", "IncorrectSetData" } -> Requires("mu", HeldExclusive)
      [] name = "readDataRLocked" -> Requires("rwMu", HeldShared)
      [] name = "AcquireAndSet" -> Acquires("acquireReleaseMu")
      [] name = "GetAndRelease" -> Releases("acquireReleaseMu")
      [] name = "FunctionToIgnore" -> Ignored
      [] OTHER -> NoContract

\* The function annotations of resource.go.
FunctionContract(name) ==
    CASE name = "setDataLocked" -> Requires("mu", HeldExclusive)
      [] name = "readDataRLocked" -> Requires("rwMu", HeldShared)
      [] name = "AcquireAndSet" -> Acquires("acquireReleaseMu")
      [] name = "GetAndRelease" -> Releases("acquireReleaseMu")
      [] name = "FunctionToIgnore" -> Ignored
      [] OTHER -> NoContract

-----------------------------------------------------------------------------
(* Instructions *)

Instr(op, l, f, c, n) ==
    [op |-> op, lock |-> l, field |-> f, callee |-> c, line |-> n, count |-> 0]
Lock(l, n) == Instr("Lock", l, "", "", n)
RLock(l, n) == Instr("RLock", l, "", "", n)
Unlock(l, n) == Instr("Unlock", l, "", "", n)
RUnlock(l, n) == Instr("RUnlock", l, "", "", n)
Read(f, n) == Instr("Read", "", f, "", n)
Write(f, n) == Instr("Write", "", f, "", n)
AtomicRead(f, n) == Instr("AtomicRead", "", f, "", n)
AtomicWrite(f, n) == Instr("AtomicWrite", "", f, "", n)
Call(c, n) == Instr("Call", "", "", c, n)
Force(l, n) == Instr("Force", l, "", "", n)
Construct(n) == Instr("Construct", "", "", "", n)
\* The comment +checklocksfail (k = 1) or +checklocksfail:k on the statement of line n.
Fail(k, n) == [Instr("Fail", "", "", "", n) EXCEPT !.count = k]
Entry == Instr("Entry", "", "", "", 0)
Return == Instr("Return", "", "", "", 0)
Skipped == Instr("Skipped", "", "", "", 0)

-----------------------------------------------------------------------------
(* The functions of pkg/resource/resource.go, in source order.  Each body   *)
(* lists the lock operations, field accesses, atomic operations, calls and  *)
(* force directives of the function with their source lines.                *)

\* The composite literal initialises the fields of a freshly allocated struct.
NewProtectedResource == << Construct(36) >>

\* Mutant: SetData without the Lock call.
\* Mutant: SetData storing val into readGuardedValue.
SetDataClobbering ==
    << Lock("mu", 49), Write("readGuardedValue", 50), Write("description", 51),
       Unlock("mu", 52) >>

SetDataWithoutLock ==
    << Write("value", 50), Write("description", 51), Unlock("mu", 52) >>

SetData ==
    << Lock("mu", 49), Write("value", 50), Write("description", 51), Unlock("mu", 52) >>

\* Mutant: IncorrectSetData without its second write.
IncorrectSetDataOneWrite == << Write("value", 58) >>

\* Mutant: IncorrectSetData locking mu around its writes.
IncorrectSetDataLocked ==
    << Lock("mu", 57), Write("value", 58), Write("description", 59), Unlock("mu", 60) >>

IncorrectSetData == << Write("value", 58), Write("description", 59) >>

GetData ==
    << Lock("mu", 64), Read("value", 65), Read("description", 66), Unlock("mu", 67) >>

setDataLocked == << Write("value", 75), Write("description", 76) >>

SetDataWithHelper == << Lock("mu", 81), Call("setDataLocked", 82), Unlock("mu", 83) >>

IncorrectSetDataWithHelper == << Call("setDataLocked", 89) >>

GetID == << Read("id", 94) >>

SetID == << Write("id", 99) >>

GetReadGuardedValueCorrect ==
    << RLock("rwMu", 106), Read("readGuardedValue", 107), RUnlock("rwMu", 108) >>

GetReadGuardedValueIncorrect == << Read("readGuardedValue", 114) >>

readDataRLocked == << Read("readGuardedValue", 120) >>

CallReadDataRLockedCorrect ==
    << RLock("rwMu", 125), Call("readDataRLocked", 126), RUnlock("rwMu", 127) >>

CallReadDataRLockedIncorrect == << Call("readDataRLocked", 133) >>

\* atomic.AddInt32 is an atomic read-modify-write.
IncrementAtomicCorrect == << AtomicWrite("atomicValue", 140) >>

ReadAtomicCorrect == << AtomicRead("atomicValue", 145) >>

IncorrectDirectReadAtomic == << Read("atomicValue", 150) >>

IncorrectDirectWriteAtomic == << Write("atomicValue", 155) >>

ReadMixedCorrectAtomic == << AtomicRead("mixedValue", 162) >>

ReadMixedCorrectLock == << Lock("mu", 167), Read("mixedValue", 168), Unlock("mu", 169) >>

WriteMixedCorrect ==
    << Lock("mu", 175), AtomicWrite("mixedValue", 176), Unlock("mu", 177) >>

WriteMixedIncorrectAtomicOnly == << AtomicWrite("mixedValue", 183) >>

WriteMixedIncorrectLockOnly ==
    << Lock("mu", 188), Write("mixedValue", 190), Unlock("mu", 191) >>

WriteMixedIncorrectNeither == << Write("mixedValue", 198) >>

\* Mutant: AcquireAndSet unlocking before it returns.
AcquireAndSetUnlocking ==
    << Lock("acquireReleaseMu", 207), Write("acquireReleaseValue", 208),
       Unlock("acquireReleaseMu", 209) >>

AcquireAndSet == << Lock("acquireReleaseMu", 207), Write("acquireReleaseValue", 208) >>

\* Mutant: GetAndRelease without its Unlock.
GetAndReleaseNoUnlock == << Read("acquireReleaseValue", 216) >>

GetAndRelease == << Read("acquireReleaseValue", 216), Unlock("acquireReleaseMu", 217) >>

\* Mutant: the cycle without the releasing call.
CallAcquireReleaseCorrectNoRelease == << Call("AcquireAndSet", 225) >>

CallAcquireReleaseCorrect == << Call("AcquireAndSet", 225), Call("GetAndRelease", 227) >>

\* Mutant: the manual Lock and Unlock removed.
CallAcquireReleaseIncorrectAcquireNoLock == << Call("AcquireAndSet", 236) >>

CallAcquireReleaseIncorrectAcquire ==
    << Lock("acquireReleaseMu", 234), Call("AcquireAndSet", 236),
       Unlock("acquireReleaseMu", 237) >>

\* Mutant: the lock taken before the releasing call.
CallAcquireReleaseIncorrectReleaseLocked ==
    << Lock("acquireReleaseMu", 242), Call("GetAndRelease", 243) >>

CallAcquireReleaseIncorrectRelease == << Call("GetAndRelease", 243) >>

FunctionToIgnore == << Write("value", 251) >>

CallIgnoredFunction == << Call("FunctionToIgnore", 257) >>

\* Mutant: the +checklocksforce comment removed from line 267.
ForceExampleNoForce ==
    << Write("value", 263), Read("value", 267), Write("description", 270) >>

\* Mutant: ForceExample locking mu before its first write.
ForceExampleLocking ==
    << Lock("mu", 262), Write("value", 263), Force("mu", 267), Read("value", 267),
       Write("description", 270) >>

\* Line 267 carries the directive +checklocksforce: pr.mu on the statement _ = pr.value.
ForceExample ==
    << Write("value", 263), Force("mu", 267), Read("value", 267),
       Write("description", 270) >>

Fn(name, body) == [name |-> name, body |-> body]

-----------------------------------------------------------------------------
(* The functions of pkg/resource/resource_test.go, in source order.  Calls  *)
(* into package testing carry no annotation and touch no lock; they are     *)
(* left out.  pr is the local variable every test works on.                 *)

\* Tells the lines of resource_test.go from those of resource.go.
TestFile == 1000
TestLine(n) == TestFile + n

newTestResource ==
    << Call("NewProtectedResource", TestLine(10)) >>

TestCorrectSetData ==
    << Call("newTestResource", TestLine(15)), Call("SetData", TestLine(16)),
       Call("GetData", TestLine(17)) >>

TestIncorrectSetData ==
    << Call("newTestResource", TestLine(25)),
       Call("IncorrectSetData", TestLine(26)) >>

TestCorrectSetDataWithHelper ==
    << Call("newTestResource", TestLine(32)),
       Call("SetDataWithHelper", TestLine(33)),
       Call("GetData", TestLine(34)) >>

TestIncorrectSetDataWithHelper ==
    << Call("newTestResource", TestLine(42)),
       Call("IncorrectSetDataWithHelper", TestLine(43)) >>

\* Mutant: the +checklocksfail comment removed from line 51.
TestDirectCallToSetDataLockedNoFail ==
    << Call("newTestResource", TestLine(49)), Call("setDataLocked", TestLine(51)) >>

\* Line 51 carries the comment +checklocksfail on the call pr.setDataLocked(...).
TestDirectCallToSetDataLocked ==
    << Call("newTestResource", TestLine(49)), Fail(1, TestLine(51)),
       Call("setDataLocked", TestLine(51)) >>

TestIDAccess ==
    << Call("newTestResource", TestLine(56)), Call("SetID", TestLine(57)),
       Call("GetID", TestLine(58)) >>

TestRWMutexCorrectRead ==
    << Call("newTestResource", TestLine(67)),
       Call("GetReadGuardedValueCorrect", TestLine(68)) >>

TestRWMutexIncorrectRead ==
    << Call("newTestResource", TestLine(76)),
       Call("GetReadGuardedValueIncorrect", TestLine(77)) >>

TestChecklocksReadCorrect ==
    << Call("newTestResource", TestLine(82)),
       Call("CallReadDataRLockedCorrect", TestLine(83)) >>

TestChecklocksReadIncorrect ==
    << Call("newTestResource", TestLine(91)),
       Call("CallReadDataRLockedIncorrect", TestLine(92)) >>

TestAtomicCorrect ==
    << Call("newTestResource", TestLine(97)),
       Call("ReadAtomicCorrect", TestLine(98)),
       Call("IncrementAtomicCorrect", TestLine(102)),
       Call("ReadAtomicCorrect", TestLine(103)) >>

TestAtomicIncorrectRead ==
    << Call("newTestResource", TestLine(111)),
       Call("IncorrectDirectReadAtomic", TestLine(112)) >>

TestAtomicIncorrectWrite ==
    << Call("newTestResource", TestLine(117)),
       Call("IncorrectDirectWriteAtomic", TestLine(118)) >>

TestMixedModeCorrectRead ==
    << Call("newTestResource", TestLine(123)),
       Call("ReadMixedCorrectAtomic", TestLine(125)),
       Call("ReadMixedCorrectLock", TestLine(130)) >>

TestMixedModeCorrectWrite ==
    << Call("newTestResource", TestLine(138)),
       Call("WriteMixedCorrect", TestLine(139)),
       Call("ReadMixedCorrectAtomic", TestLine(140)) >>

TestMixedModeIncorrectWriteAtomicOnly ==
    << Call("newTestResource", TestLine(148)),
       Call("WriteMixedIncorrectAtomicOnly", TestLine(149)) >>

TestMixedModeIncorrectWriteLockOnly ==
    << Call("newTestResource", TestLine(154)),
       Call("WriteMixedIncorrectLockOnly", TestLine(155)) >>

TestMixedModeIncorrectWriteNeither ==
    << Call("newTestResource", TestLine(160)),
       Call("WriteMixedIncorrectNeither", TestLine(161)) >>

TestAcquireReleaseCorrect ==
    << Call("newTestResource", TestLine(167)),
       Call("CallAcquireReleaseCorrect", TestLine(168)),
       Call("AcquireAndSet", TestLine(173)),
       Call("GetAndRelease", TestLine(174)) >>

TestAcquireReleaseIncorrectAcquire ==
    << Call("newTestResource", TestLine(185)),
       Call("CallAcquireReleaseIncorrectAcquire", TestLine(186)) >>

TestAcquireReleaseIncorrectRelease ==
    << Call("newTestResource", TestLine(194)),
       Call("CallAcquireReleaseIncorrectRelease", TestLine(195)) >>

TestIgnore ==
    << Call("newTestResource", TestLine(201)), Call("CallIgnoredFunction", TestLine(202)),
       Lock("mu", TestLine(206)), Read("value", TestLine(207)), Unlock("mu", TestLine(208)) >>

TestForce ==
    << Call("newTestResource", TestLine(215)), Call("ForceExample", TestLine(216)),
       Lock("mu", TestLine(220)), Read("description", TestLine(221)),
       Unlock("mu", TestLine(222)) >>

ResourceTest == <<
    Fn("newTestResource", newTestResource),
    Fn("TestCorrectSetData", TestCorrectSetData),
    Fn("TestIncorrectSetData", TestIncorrectSetData),
    Fn("TestCorrectSetDataWithHelper", TestCorrectSetDataWithHelper),
    Fn("TestIncorrectSetDataWithHelper", TestIncorrectSetDataWithHelper),
    Fn("TestDirectCallToSetDataLocked", TestDirectCallToSetDataLocked),
    Fn("TestIDAccess", TestIDAccess),
    Fn("TestRWMutexCorrectRead", TestRWMutexCorrectRead),
    Fn("TestRWMutexIncorrectRead", TestRWMutexIncorrectRead),
    Fn("TestChecklocksReadCorrect", TestChecklocksReadCorrect),
    Fn("TestChecklocksReadIncorrect", TestChecklocksReadIncorrect),
    Fn("TestAtomicCorrect", TestAtomicCorrect),
    Fn("TestAtomicIncorrectRead", TestAtomicIncorrectRead),
    Fn("TestAtomicIncorrectWrite", TestAtomicIncorrectWrite),
    Fn("TestMixedModeCorrectRead", TestMixedModeCorrectRead),
    Fn("TestMixedModeCorrectWrite", TestMixedModeCorrectWrite),
    Fn("TestMixedModeIncorrectWriteAtomicOnly", TestMixedModeIncorrectWriteAtomicOnly),
    Fn("TestMixedModeIncorrectWriteLockOnly", TestMixedModeIncorrectWriteLockOnly),
    Fn("TestMixedModeIncorrectWriteNeither", TestMixedModeIncorrectWriteNeither),
    Fn("TestAcquireReleaseCorrect", TestAcquireReleaseCorrect),
    Fn("TestAcquireReleaseIncorrectAcquire", TestAcquireReleaseIncorrectAcquire),
    Fn("TestAcquireReleaseIncorrectRelease", TestAcquireReleaseIncorrectRelease),
    Fn("TestIgnore", TestIgnore),
    Fn("TestForce", TestForce) >>

-----------------------------------------------------------------------------
\* The functions of the package in the order of the pass.
Program == <<
    Fn("NewProtectedResource", NewProtectedResource),
    Fn("SetData", SetData),
    Fn("IncorrectSetData", IncorrectSetData),
    Fn("GetData", GetData),
    Fn("setDataLocked", setDataLocked),
    Fn("SetDataWithHelper", SetDataWithHelper),
    Fn("IncorrectSetDataWithHelper", IncorrectSetDataWithHelper),
    Fn("GetID", GetID),
    Fn("SetID", SetID),
    Fn("GetReadGuardedValueCorrect", GetReadGuardedValueCorrect),
    Fn("GetReadGuardedValueIncorrect", GetReadGuardedValueIncorrect),
    Fn("readDataRLocked", readDataRLocked),
    Fn("CallReadDataRLockedCorrect", CallReadDataRLockedCorrect),
    Fn("CallReadDataRLockedIncorrect", CallReadDataRLockedIncorrect),
    Fn("IncrementAtomicCorrect", IncrementAtomicCorrect),
    Fn("ReadAtomicCorrect", ReadAtomicCorrect),
    Fn("IncorrectDirectReadAtomic", IncorrectDirectReadAtomic),
    Fn("IncorrectDirectWriteAtomic", IncorrectDirectWriteAtomic),
    Fn("ReadMixedCorrectAtomic", ReadMixedCorrectAtomic),
    Fn("ReadMixedCorrectLock", ReadMixedCorrectLock),
    Fn("WriteMixedCorrect", WriteMixedCorrect),
    Fn("WriteMixedIncorrectAtomicOnly", WriteMixedIncorrectAtomicOnly),
    Fn("WriteMixedIncorrectLockOnly", WriteMixedIncorrectLockOnly),
    Fn("WriteMixedIncorrectNeither", WriteMixedIncorrectNeither),
    Fn("AcquireAndSet", AcquireAndSet),
    Fn("GetAndRelease", GetAndRelease),
    Fn("CallAcquireReleaseCorrect", CallAcquireReleaseCorrect),
    Fn("CallAcquireReleaseIncorrectAcquire", CallAcquireReleaseIncorrectAcquire),
    Fn("CallAcquireReleaseIncorrectRelease", CallAcquireReleaseIncorrectRelease),
    Fn("FunctionToIgnore", FunctionToIgnore),
    Fn("CallIgnoredFunction", CallIgnoredFunction),
    Fn("ForceExample", ForceExample) >> \o ResourceTest

NumFunctions == Len(Program)

\* Index in Program of each function, by name.
Index ==
    [n \in { Program[k].name : k \in 1..NumFunctions } |->
        CHOOSE i \in 1..NumFunctions : Program[i].name = n]

\* Index in Program of the function called name.
IndexOf(name) == Index[name]

-----------------------------------------------------------------------------
(* Diagnostics *)

\* The held-lock-set a diagnostic prints: the locks whose mode is not NotHeld.
Snapshot(s) == { << l, s[l] >> : l \in { k \in Locks : s[k] # NotHeld } }

\* A diagnostic that prints "(locks: ...)".
Diag(n, msg, l, about, s) ==
    [line |-> n, msg |-> msg, lock |-> l, about |-> about, snap |-> TRUE, held |-> Snapshot(s)]

\* A diagnostic that prints no held-lock-set.
DiagBare(n, msg, about) ==
    [line |-> n, msg |-> msg, lock |-> "", about |-> about, snap |-> FALSE, held |-> {}]

InvalidFieldAccess == "invalid field access, must be locked when accessing"
MustHoldExclusively == "must hold exclusively to call, but not held"
MustHoldNonExclusively == "must hold non-exclusively to call, but not held"
IllegalAtomicUse == "illegal use of atomic-only field by instruction"
NonAtomicWrite == "non-atomic write of field, writes must still be atomic with locks held"
UnexpectedAtomicWrite == "unexpected call to atomic write function, is a lock missing?"
AlreadyHeld == "attempt to acquire, but already held"
NotHeldOnRelease == "attempt to release, but not held"
UnexpectedLocksHeld == "return with unexpected locks held"
RequiredLockNotHeld == "return without required lock held"
\* What a statement annotated +checklocksfail reports when its count is not met.
GotWantFailures(seen, wanted) ==
    "got " \o ToString(seen) \o " failures, want " \o ToString(wanted) \o " failures"

\* The rule-kind of a message.
RuleKind(msg) ==
    CASE msg = InvalidFieldAccess -> "AccessViolation"
      [] msg \in { MustHoldExclusively, MustHoldNonExclusively } -> "CallPreconditionViolation"
      [] msg \in { IllegalAtomicUse, NonAtomicWrite } -> "AtomicAccessViolation"
      [] msg = UnexpectedAtomicWrite -> "MixedModeViolation"
      [] msg = AlreadyHeld -> "AcquireViolation"
      [] msg = NotHeldOnRelease -> "ReleaseViolation"
      [] msg \in { UnexpectedLocksHeld, RequiredLockNotHeld } -> "ExitStateViolation"
      [] OTHER -> "ExpectationFailure"

\* A diagnostic that reports a missing lock / a missing atomic operation.
IsLockDiag(d) == RuleKind(d.msg) \in { "AccessViolation", "MixedModeViolation" }
IsAtomicDiag(d) == RuleKind(d.msg) = "AtomicAccessViolation"

\* The "Annotated Linter Output" for pkg/resource, comment lines left out.
ReadmeOutput ==
    LET none == [l \in Locks |-> NotHeld]
        mu == [none EXCEPT !["mu"] = HeldExclusive]
        ar == [none EXCEPT !["acquireReleaseMu"] = HeldExclusive]
    IN << Diag(58, InvalidFieldAccess, "mu", "value", none),
          Diag(59, InvalidFieldAccess, "mu", "description", none),
          Diag(89, MustHoldExclusively, "mu", "setDataLocked", none),
          Diag(114, InvalidFieldAccess, "rwMu", "readGuardedValue", none),
          Diag(133, MustHoldNonExclusively, "rwMu", "readDataRLocked", none),
          DiagBare(150, IllegalAtomicUse, "*ssa.UnOp"),
          DiagBare(155, IllegalAtomicUse, "*ssa.Store"),
          Diag(155, NonAtomicWrite, "", "atomicValue", none),
          DiagBare(183, UnexpectedAtomicWrite, ""),
          DiagBare(190, IllegalAtomicUse, "*ssa.Store"),
          Diag(190, NonAtomicWrite, "", "mixedValue", mu),
          DiagBare(198, IllegalAtomicUse, "*ssa.Store"),
          Diag(198, NonAtomicWrite, "", "mixedValue", none),
          Diag(236, AlreadyHeld, "acquireReleaseMu", "", ar),
          Diag(243, MustHoldExclusively, "acquireReleaseMu", "GetAndRelease", none),
          Diag(243, NotHeldOnRelease, "acquireReleaseMu", "", none),
          Diag(263, InvalidFieldAccess, "mu", "value", none),
          Diag(0, UnexpectedLocksHeld, "", "", mu) >>

-----------------------------------------------------------------------------
(* Lock-state propagation and the checks *)

\* State at function entry, seeded from the function's own contract.
EntryState(c) ==
    [l \in Locks |->
        IF c.kind = "Requires" /\ l = c.lock THEN c.mode
        ELSE IF c.kind = "Releases" /\ l = c.lock THEN HeldExclusive
        ELSE NotHeld]

\* State the function's contract obliges it to return with.
ExitState(c) ==
    [l \in Locks |->
        IF c.kind = "Requires" /\ l = c.lock THEN c.mode
        ELSE IF c.kind = "Acquires" /\ l = c.lock THEN HeldExclusive
        ELSE NotHeld]

ExitDiags(c, s) ==
    LET want == ExitState(c)
    IN (IF \E l \in Locks : ModeRank(s[l]) > ModeRank(want[l])
        THEN << Diag(0, UnexpectedLocksHeld, "", "", s) >> ELSE << >>)
       \o
       (IF \E l \in Locks : ModeRank(s[l]) < ModeRank(want[l])
        THEN << Diag(0, RequiredLockNotHeld, "", "", s) >> ELSE << >>)

\* A guarded read is satisfied by the lock held in either mode, a write by
\* the lock held exclusively.
GuardSatisfied(m, isWrite) == IF isWrite THEN m = HeldExclusive ELSE m # NotHeld

\* Diagnostics of a direct (non-atomic) read or write of a field.
FieldAccessDiags(i, s) ==
    LET fc == FieldContract(i.field)
        w == i.op = "Write"
        illegal == DiagBare(i.line, IllegalAtomicUse, IF w THEN "*ssa.Store" ELSE "*ssa.UnOp")
        nonatomic == Diag(i.line, NonAtomicWrite, "", i.field, s)
    IN CASE fc.kind = "None" -> << >>
         [] fc.kind = "Guarded" ->
              IF GuardSatisfied(s[fc.lock], w) THEN << >>
              ELSE << Diag(i.line, InvalidFieldAccess, fc.lock, i.field, s) >>
         [] fc.kind = "AtomicOnly" ->
              IF w THEN << illegal, nonatomic >> ELSE << illegal >>
         [] fc.kind = "Mixed" ->
              IF w THEN << illegal, nonatomic >>
              ELSE IF GuardSatisfied(s[fc.lock], FALSE) THEN << >>
              ELSE << illegal >>

\* Diagnostics of a sync/atomic operation on a field.
AtomicOpDiags(i, s) ==
    LET fc == FieldContract(i.field)
    IN IF fc.kind = "Mixed" /\ i.op = "AtomicWrite" /\ s[fc.lock] # HeldExclusive
       THEN << DiagBare(i.line, UnexpectedAtomicWrite, "") >>
       ELSE << >>

\* Diagnostics of a call of line i.line to a function whose contract is c.
CallDiagsFor(c, i, s) ==
    LET musthold == IF c.mode = HeldExclusive THEN MustHoldExclusively
                    ELSE MustHoldNonExclusively
    IN CASE c.kind = "Requires" ->
              IF ModeRank(s[c.lock]) < ModeRank(c.mode)
              THEN << Diag(i.line, musthold, c.lock, i.callee, s) >> ELSE << >>
         [] c.kind = "Acquires" ->
              IF s[c.lock] # NotHeld
              THEN << Diag(i.line, AlreadyHeld, c.lock, "", s) >> ELSE << >>
         [] c.kind = "Releases" ->
              IF s[c.lock] # HeldExclusive
              THEN << Diag(i.line, MustHoldExclusively, c.lock, i.callee, s),
                      Diag(i.line, NotHeldOnRelease, c.lock, "", s) >>
              ELSE << >>
         [] OTHER -> << >>

\* Diagnostics of a call to a function, from the callee's contract alone.
CallDiags(i, s) == CallDiagsFor(FunctionContract(i.callee), i, s)

\* Lock state past a call of a function whose contract is c.
CallEffectFor(c, s) ==
    CASE c.kind = "Acquires" -> [s EXCEPT ![c.lock] = HeldExclusive]
      [] c.kind = "Releases" -> [s EXCEPT ![c.lock] = NotHeld]
      [] OTHER -> s

\* Lock state past a call: only acquire/release contracts change it.
CallEffect(i, s) == CallEffectFor(FunctionContract(i.callee), s)

\* +checklocksforce: the lock counts as held exclusively from here on.
ForceEffect(i, s) == [s EXCEPT ![i.lock] = HeldExclusive]

\* +checklocksfail: the diagnostics located at the annotated statement are
\* counted and not reported.
Reported(e, ds) == IF e = 0 THEN ds ELSE << >>

\* The expectations that were not met, after a statement of line n that was
\* expected to yield e diagnostics yielded ds.
UnmetAfter(um, e, n, ds) ==
    IF e = 0 \/ Len(ds) = e THEN um
    ELSE Append(um, DiagBare(n, GotWantFailures(Len(ds), e), ""))

\* Mutant: a driver that always reports success.
ExitStatusZero(r) == 0

\* go vet fails if any diagnostic was reported.
ExitStatus(r) == IF Len(r) > 0 THEN 1 ELSE 0

-----------------------------------------------------------------------------
(* The arbitrary function: contracts and instructions of the file's vocabulary *)

ProbeContracts == { FunctionContract(Program[k].name) : k \in 1..NumFunctions }

\* One callee per kind of contract, and an unannotated one.
ProbeCallees == { "setDataLocked", "readDataRLocked", "AcquireAndSet", "GetAndRelease",
                  "FunctionToIgnore", "SetData" }

\* A statement yields two diagnostics at most: the counts a +checklocksfail
\* can meet, of which TestDirectCallToSetDataLocked uses the first.
ExpectedCounts == { 1, 2 }

AtomicFields == { f \in Fields : FieldContract(f).kind \in { "AtomicOnly", "Mixed" } }

Alphabet ==
    { Lock(l, 0) : l \in Locks } \cup { Unlock(l, 0) : l \in Locks }
    \cup { RLock(l, 0) : l \in { k \in Locks : LockKind(k) = "RWMutex" } }
    \cup { RUnlock(l, 0) : l \in { k \in Locks : LockKind(k) = "RWMutex" } }
    \cup { Read(f, 0) : f \in Fields } \cup { Write(f, 0) : f \in Fields }
    \cup { AtomicRead(f, 0) : f \in AtomicFields }
    \cup { AtomicWrite(f, 0) : f \in AtomicFields }
    \cup { Call(c, 0) : c \in ProbeCallees }
    \cup { Force(l, 0) : l \in Locks }
    \cup { Fail(k, 0) : k \in ExpectedCounts }

-----------------------------------------------------------------------------
(* The analysis *)

\* No parallel analysis is under way.
ParallelIdle ==
    /\ registry = << >>
    /\ base = 0
    /\ an = << >>
    /\ merged = << >>
    /\ pphase = "idle"

\* No merge point is being processed.
MergeIdle ==
    /\ incoming = << >>
    /\ pending = { }
    /\ joined = << >>

\* No goroutine runs.
RuntimeIdle ==
    /\ scenario = ""
    /\ mem = << >>
    /\ mutex = << >>
    /\ owner = << >>
    /\ gor = << >>
    /\ fatal = ""
    /\ foreign = { }

Init ==
    /\ phase = "run"
    /\ pc = 1
    /\ report = << >>
    /\ last = Entry
    /\ emitted = << >>
    /\ expect = 0
    /\ expected = 0
    /\ unmet = << >>
    /\ status = -1
    /\ ParallelIdle
    /\ RuntimeIdle
    /\ MergeIdle
    /\ \/ fi = 1 /\ contract = FunctionContract(Program[1].name)
       \/ fi = 0 /\ contract \in ProbeContracts
    /\ ls = EntryState(contract)
    /\ pre = ls

\* The instructions that can stand at the current program point.
Fetch ==
    IF phase # "run" \/ contract.kind = "Ignored" THEN { }
    ELSE IF fi = 0 THEN (IF pc <= MaxBody THEN Alphabet ELSE { })
    ELSE IF pc <= Len(Program[fi].body) THEN { Program[fi].body[pc] }
    ELSE { }

\* Instruction i is processed: the state becomes s and diagnostics ds are reported.
Advance(i, s, ds) ==
    /\ pc' = pc + 1
    /\ ls' = s
    /\ report' = report \o Reported(expect, ds)
    /\ unmet' = UnmetAfter(unmet, expect, i.line, ds)
    /\ expect' = 0
    /\ expected' = expect
    /\ last' = i
    /\ pre' = ls
    /\ emitted' = ds
    /\ UNCHANGED << fi, contract, phase, status >>
    /\ UNCHANGED others

\* Directive i, a comment on the statement that follows it, is processed: the
\* state becomes s and the statement is expected to yield e diagnostics.
Directive(i, s, e) ==
    /\ pc' = pc + 1
    /\ ls' = s
    /\ expect' = e
    /\ expected' = expect
    /\ last' = i
    /\ pre' = ls
    /\ emitted' = << >>
    /\ UNCHANGED << fi, contract, phase, report, unmet, status >>
    /\ UNCHANGED others

\* mu.Lock() / rwMu.RLock()
DirectAcquire ==
    \E i \in Fetch :
        /\ i.op \in { "Lock", "RLock" }
        /\ IF ls[i.lock] = HeldExclusive
           THEN Advance(i, ls, << Diag(i.line, AlreadyHeld, i.lock, "", ls) >>)
           ELSE Advance(i, [ls EXCEPT ![i.lock] =
                               IF i.op = "Lock" THEN HeldExclusive ELSE HeldShared],
                        << >>)

\* mu.Unlock() / rwMu.RUnlock()
DirectRelease ==
    \E i \in Fetch :
        /\ i.op \in { "Unlock", "RUnlock" }
        /\ Advance(i, [ls EXCEPT ![i.lock] = NotHeld],
                   IF ls[i.lock] = NotHeld
                   THEN << Diag(i.line, NotHeldOnRelease, i.lock, "", ls) >>
                   ELSE << >>)

\* pr.f = v / v := pr.f
FieldAccess ==
    \E i \in Fetch :
        /\ i.op \in { "Read", "Write" }
        /\ Advance(i, ls, FieldAccessDiags(i, ls))

\* atomic.LoadInt32(&pr.f) / atomic.StoreInt32(&pr.f, v) / atomic.AddInt32(&pr.f, d)
AtomicOp ==
    \E i \in Fetch :
        /\ i.op \in { "AtomicRead", "AtomicWrite" }
        /\ Advance(i, ls, AtomicOpDiags(i, ls))

\* pr.callee(...)
CallSite ==
    \E i \in Fetch :
        /\ i.op = "Call"
        /\ Advance(i, CallEffect(i, ls), CallDiags(i, ls))

\* // +checklocksforce: lock
ForceDirective ==
    \E i \in Fetch :
        /\ i.op = "Force"
        /\ Directive(i, ForceEffect(i, ls), expect)

\* // +checklocksfail
FailDirective ==
    \E i \in Fetch :
        /\ i.op = "Fail"
        /\ Directive(i, ls, i.count)

\* &ProtectedResource{...}: stores into a struct no other code can reach yet.
CompositeLiteral ==
    \E i \in Fetch :
        /\ i.op = "Construct"
        /\ Advance(i, ls, << >>)

\* The analysis moves on: to the next function of the file with a fresh
\* state seeded from its contract, or to the end of the pass.
\* ds are the diagnostics of the return point.  At the end of the pass the
\* unmet expectations are reported and the driver's status is set.
NextFunction(ds) ==
    /\ emitted' = ds
    /\ unmet' = UnmetAfter(unmet, expect, 0, << >>)
    /\ expect' = 0
    /\ expected' = expect
    /\ pre' = ls
    /\ UNCHANGED others
    /\ IF fi \in 1..(NumFunctions - 1)
       THEN /\ fi' = fi + 1
            /\ contract' = FunctionContract(Program[fi + 1].name)
            /\ ls' = EntryState(FunctionContract(Program[fi + 1].name))
            /\ pc' = 1
            /\ phase' = "run"
            /\ report' = report \o ds
            /\ UNCHANGED status
       ELSE /\ phase' = "done"
            /\ ls' = [l \in Locks |-> NotHeld]
            /\ report' = report \o ds \o unmet'
            /\ status' = ExitStatus(report')
            /\ UNCHANGED << fi, contract, pc >>

\* Return point: the state is compared with the contract's exit state.
ExitCheck ==
    /\ phase = "run"
    /\ contract.kind # "Ignored"
    /\ IF fi = 0 THEN TRUE ELSE pc = Len(Program[fi].body) + 1
    /\ last' = Return
    /\ NextFunction(ExitDiags(contract, ls))

\* A +checklocksignore function: its body is not analyzed.
SkipIgnored ==
    /\ phase = "run"
    /\ contract.kind = "Ignored"
    /\ last' = Skipped
    /\ NextFunction(<< >>)

Next ==
    \/ DirectAcquire
    \/ DirectRelease
    \/ FieldAccess
    \/ AtomicOp
    \/ CallSite
    \/ ForceDirective
    \/ FailDirective
    \/ CompositeLiteral
    \/ ExitCheck
    \/ SkipIgnored

Spec == Init /\ [][Next]_vars

TypeOK ==
    /\ fi \in 0..NumFunctions
    /\ ls \in [Locks -> Modes]
    /\ pre \in [Locks -> Modes]
    /\ phase \in { "run", "done" }
    /\ Len(emitted) <= 2
    /\ expect \in 0..2
    /\ expected \in 0..2
    /\ status \in { -1, 0, 1 }

-----------------------------------------------------------------------------
(* Observations used by the properties below *)

\* The pass over resource.go has ended.
FileDone == fi = NumFunctions /\ phase = "done"

\* The last step processed instruction number k of the function called name.
At(name, k) ==
    /\ fi = IndexOf(name)
    /\ phase = "run"
    /\ pc = k + 1
    /\ k <= Len(Program[IndexOf(name)].body)
    /\ last = Program[IndexOf(name)].body[k]

\* The last step processed an instruction of the function called name.
In(name) == fi = IndexOf(name) /\ phase = "run" /\ pc > 1

\* The last step was the exit check of the function called name.
Returned(name) ==
    /\ last = Return
    /\ IF name = Program[NumFunctions].name THEN FileDone
       ELSE fi = IndexOf(name) + 1 /\ pc = 1 /\ phase = "run"

\* The diagnostics of the report located at line n.
AtLine(n) == SelectSeq(report, LAMBDA d : d.line = n)

\* The lines of the function called name.
LinesOf(name) == { Program[IndexOf(name)].body[k].line :
                      k \in 1..Len(Program[IndexOf(name)].body) }

\* The diagnostics of the report located in the body of the function called name.
InBody(name) == SelectSeq(report, LAMBDA d : d.line \in LinesOf(name))

Kinds(ds) == { RuleKind(ds[k].msg) : k \in 1..Len(ds) }

-----------------------------------------------------------------------------
(* C1: the pass over every function of pkg/resource/resource.go reports     *)
(* exactly the 18 diagnostics of the README's annotated linter output, in   *)
(* that order, and no others.                                               *)
C1_ReportIsReadmeOutput ==
    FileDone =>
        /\ report = ReadmeOutput
        /\ Len(report) = 18
        /\ \A n \in { 58, 59, 114, 263 } : Kinds(AtLine(n)) = { "AccessViolation" }
                                           /\ Len(AtLine(n)) = 1
        /\ \A n \in { 89, 133 } : Kinds(AtLine(n)) = { "CallPreconditionViolation" }
                                  /\ Len(AtLine(n)) = 1
        /\ Kinds(AtLine(150)) = { "AtomicAccessViolation" } /\ Len(AtLine(150)) = 1
        /\ \A n \in { 155, 190, 198, 243 } : Len(AtLine(n)) = 2
        /\ Len(AtLine(183)) = 1
        /\ Kinds(AtLine(236)) = { "AcquireViolation" } /\ Len(AtLine(236)) = 1
        /\ AtLine(0) = << ReadmeOutput[18] >>

C1_Witness == FileDone /\ Len(report) = 18


-----------------------------------------------------------------------------
\* The fields annotated +checklocks:L alone, with their L.
GuardOf(f) ==
    CASE f \in { "value", "description" } -> "mu"
      [] f = "readGuardedValue" -> "rwMu"
      [] f = "acquireReleaseValue" -> "acquireReleaseMu"

LastIsGuardedAccess ==
    /\ last.op \in { "Read", "Write" }
    /\ last.field \in { "value", "description", "readGuardedValue", "acquireReleaseValue" }

-----------------------------------------------------------------------------
LastIsMixedWrite == last.op \in { "Write", "AtomicWrite" } /\ last.field = "mixedValue"

LockDiags(ds) == SelectSeq(ds, IsLockDiag)
AtomicDiags(ds) == SelectSeq(ds, IsAtomicDiag)

(* C3: every write of mixedValue emits a lock diagnostic iff mu is not      *)
(* HeldExclusive and, independently, an atomic diagnostic iff the write is  *)
(* not atomic-qualified: none in WriteMixedCorrect, only the lock           *)
(* diagnostic in WriteMixedIncorrectAtomicOnly, only the atomic diagnostic  *)
(* in WriteMixedIncorrectLockOnly, exactly two (one lock, one atomic) at    *)
(* the single statement of WriteMixedIncorrectNeither.                      *)
C3_MixedWriteLockAndAtomicIndependent ==
    /\ LastIsMixedWrite =>
          /\ LockDiags(emitted) # << >> <=> pre["mu"] # HeldExclusive
          /\ AtomicDiags(emitted) # << >> <=> last.op = "Write"
    /\ Returned("WriteMixedCorrect") => InBody("WriteMixedCorrect") = << >>
    /\ Returned("WriteMixedIncorrectAtomicOnly") =>
          /\ Len(LockDiags(InBody("WriteMixedIncorrectAtomicOnly"))) = 1
          /\ AtomicDiags(InBody("WriteMixedIncorrectAtomicOnly")) = << >>
    /\ Returned("WriteMixedIncorrectLockOnly") =>
          /\ LockDiags(InBody("WriteMixedIncorrectLockOnly")) = << >>
          /\ AtomicDiags(InBody("WriteMixedIncorrectLockOnly")) # << >>
    /\ Returned("WriteMixedIncorrectNeither") =>
          /\ Len(InBody("WriteMixedIncorrectNeither")) = 2
          /\ Len(LockDiags(InBody("WriteMixedIncorrectNeither"))) = 1
          /\ Len(AtomicDiags(InBody("WriteMixedIncorrectNeither"))) = 1

\* What the pass does report for the writes of mixedValue: a direct write
\* yields the two atomic diagnostics whatever the mode of mu and no lock
\* diagnostic; an atomic write yields one lock diagnostic iff mu is not held.
C3_MixedWriteAsReported ==
    LastIsMixedWrite =>
        /\ last.op = "Write" =>
              /\ Len(emitted) = 2
              /\ Len(AtomicDiags(emitted)) = 2
              /\ LockDiags(emitted) = << >>
        /\ last.op = "AtomicWrite" =>
              /\ AtomicDiags(emitted) = << >>
              /\ Len(emitted) = (IF pre["mu"] = HeldExclusive THEN 0 ELSE 1)
              /\ Len(LockDiags(emitted)) = Len(emitted)

-----------------------------------------------------------------------------
LastIsMixedRead == last.op \in { "Read", "AtomicRead" } /\ last.field = "mixedValue"

(* C4: a read of mixedValue produces no diagnostic if it is atomic or mu is *)
(* HeldExclusive in front of it, and a diagnostic when neither holds;       *)
(* ReadMixedCorrectAtomic and ReadMixedCorrectLock yield none.              *)
C4_MixedReadLockOrAtomic ==
    /\ LastIsMixedRead =>
          /\ emitted = << >> <=> (last.op = "AtomicRead" \/ pre["mu"] = HeldExclusive)
          /\ ls = pre
    /\ Returned("ReadMixedCorrectAtomic") => InBody("ReadMixedCorrectAtomic") = << >>
    /\ Returned("ReadMixedCorrectLock") => InBody("ReadMixedCorrectLock") = << >>

\* The direct read of line 168 has been checked with mu held.
C4_Witness ==
    /\ At("ReadMixedCorrectLock", 2)
    /\ last.op = "Read"
    /\ pre["mu"] = HeldExclusive
    /\ emitted = << >>

-----------------------------------------------------------------------------
LastIsAtomicOnlyAccess ==
    /\ last.op \in { "Read", "Write", "AtomicRead", "AtomicWrite" }
    /\ last.field = "atomicValue"

(* C5: an access of atomicValue emits a diagnostic iff it is direct,        *)
(* whatever the lock state: none for the sync/atomic operations of          *)
(* IncrementAtomicCorrect and ReadAtomicCorrect, an AtomicAccessViolation   *)
(* for the direct read and for the direct write.                            *)
C5_AtomicOnlyIffDirect ==
    /\ LastIsAtomicOnlyAccess =>
          /\ emitted # << >> <=> last.op \in { "Read", "Write" }
          /\ emitted # << >> => Kinds(emitted) = { "AtomicAccessViolation" }
          /\ ls = pre
    /\ Returned("IncrementAtomicCorrect") => InBody("IncrementAtomicCorrect") = << >>
    /\ Returned("ReadAtomicCorrect") => InBody("ReadAtomicCorrect") = << >>
    /\ Returned("IncorrectDirectReadAtomic") =>
          "AtomicAccessViolation" \in Kinds(InBody("IncorrectDirectReadAtomic"))
    /\ Returned("IncorrectDirectWriteAtomic") =>
          "AtomicAccessViolation" \in Kinds(InBody("IncorrectDirectWriteAtomic"))

\* A direct write of atomicValue has been reported while a lock was held.
C5_Witness ==
    /\ last.op = "Write"
    /\ last.field = "atomicValue"
    /\ \E l \in Locks : pre[l] = HeldExclusive
    /\ emitted # << >>


-----------------------------------------------------------------------------
\* The two functions with a Requires contract: the lock and the mode required.
RequiredLock(c) == IF c = "setDataLocked" THEN "mu" ELSE "rwMu"
RequiredMode(c) == IF c = "setDataLocked" THEN HeldExclusive ELSE HeldShared

LastIsRequiresCall ==
    last.op = "Call" /\ last.callee \in { "setDataLocked", "readDataRLocked" }

(* C6: at a call of setDataLocked (+checklocks:pr.mu) or readDataRLocked    *)
(* (+checklocksread:pr.rwMu) a CallPreconditionViolation is emitted iff the *)
(* caller's mode of the lock is weaker than the required one under          *)
(* NotHeld < HeldShared < HeldExclusive, and the caller's lock state after  *)
(* the call is the state before it, violation or not.                       *)
C6_RequiresCallCheckedStateUnchanged ==
    /\ LastIsRequiresCall =>
          /\ emitted # << >> <=>
                ModeRank(pre[RequiredLock(last.callee)]) < ModeRank(RequiredMode(last.callee))
          /\ emitted # << >> =>
                Len(emitted) = 1 /\ Kinds(emitted) = { "CallPreconditionViolation" }
          /\ ls = pre
    /\ Returned("SetDataWithHelper") => InBody("SetDataWithHelper") = << >>
    /\ Returned("CallReadDataRLockedCorrect") => InBody("CallReadDataRLockedCorrect") = << >>

\* The call of line 89 has been reported and has left the state alone.
C6_Witness ==
    /\ At("IncorrectSetDataWithHelper", 1)
    /\ last.callee = "setDataLocked"
    /\ Kinds(emitted) = { "CallPreconditionViolation" }
    /\ ls = pre

\* readDataRLocked has been called with rwMu held exclusively, without a report.
C6_WitnessExclusiveSatisfiesShared ==
    /\ last.op = "Call"
    /\ last.callee = "readDataRLocked"
    /\ pre["rwMu"] = HeldExclusive
    /\ emitted = << >>

-----------------------------------------------------------------------------
(* C7: a call of AcquireAndSet (+checklocksacquire) with acquireReleaseMu   *)
(* already HeldExclusive yields exactly one AcquireViolation and leaves the *)
(* lock HeldExclusive; in CallAcquireReleaseIncorrectAcquire the following  *)
(* Unlock yields no ReleaseViolation and the return no exit diagnostic.     *)
C7_AcquireWhileHeld ==
    /\ (last.op = "Call" /\ last.callee = "AcquireAndSet"
          /\ pre["acquireReleaseMu"] = HeldExclusive) =>
          /\ Len(emitted) = 1
          /\ Kinds(emitted) = { "AcquireViolation" }
          /\ ls["acquireReleaseMu"] = HeldExclusive
    /\ (In("CallAcquireReleaseIncorrectAcquire") /\ last.op = "Call") =>
          /\ pre["acquireReleaseMu"] = HeldExclusive
          /\ Len(emitted) = 1
    /\ (In("CallAcquireReleaseIncorrectAcquire") /\ last.op = "Unlock") =>
          /\ pre["acquireReleaseMu"] = HeldExclusive
          /\ emitted = << >>
    /\ Returned("CallAcquireReleaseIncorrectAcquire") =>
          /\ emitted = << >>
          /\ Len(InBody("CallAcquireReleaseIncorrectAcquire")) = 1
          /\ Kinds(InBody("CallAcquireReleaseIncorrectAcquire")) = { "AcquireViolation" }

\* CallAcquireReleaseIncorrectAcquire has returned, its call reported once.
C7_Witness ==
    /\ Returned("CallAcquireReleaseIncorrectAcquire")
    /\ Len(AtLine(236)) = 1
    /\ AtLine(237) = << >>

-----------------------------------------------------------------------------
(* C8: a call of GetAndRelease (+checklocksrelease) with acquireReleaseMu   *)
(* NotHeld yields exactly two diagnostics at the call, one                  *)
(* CallPreconditionViolation and one ReleaseViolation, and the lock is      *)
(* NotHeld after the call (CallAcquireReleaseIncorrectRelease).             *)
C8_ReleaseWhileNotHeld ==
    /\ (last.op = "Call" /\ last.callee = "GetAndRelease"
          /\ pre["acquireReleaseMu"] = NotHeld) =>
          /\ Len(emitted) = 2
          /\ Kinds(emitted) = { "CallPreconditionViolation", "ReleaseViolation" }
          /\ ls["acquireReleaseMu"] = NotHeld
    /\ (In("CallAcquireReleaseIncorrectRelease") /\ last.op = "Call") =>
          pre["acquireReleaseMu"] = NotHeld
    /\ Returned("CallAcquireReleaseIncorrectRelease") =>
          /\ Len(InBody("CallAcquireReleaseIncorrectRelease")) = 2
          /\ emitted = << >>

\* The call of line 243 has been reported twice.
C8_Witness ==
    /\ At("CallAcquireReleaseIncorrectRelease", 1)
    /\ last.callee = "GetAndRelease"
    /\ Len(emitted) = 2
    /\ ls["acquireReleaseMu"] = NotHeld

-----------------------------------------------------------------------------
(* C9: a call of an Acquires(L) function from NotHeld(L) moves the caller   *)
(* to HeldExclusive(L) and a call of a Releases(L) function from            *)
(* HeldExclusive(L) moves it to NotHeld(L), without a diagnostic at either  *)
(* call; CallAcquireReleaseCorrect yields no diagnostic, at return either.  *)
C9_AcquireReleaseAcrossCalls ==
    /\ (last.op = "Call" /\ last.callee = "AcquireAndSet"
          /\ pre["acquireReleaseMu"] = NotHeld) =>
          /\ emitted = << >>
          /\ ls = [pre EXCEPT !["acquireReleaseMu"] = HeldExclusive]
    /\ (last.op = "Call" /\ last.callee = "GetAndRelease"
          /\ pre["acquireReleaseMu"] = HeldExclusive) =>
          /\ emitted = << >>
          /\ ls = [pre EXCEPT !["acquireReleaseMu"] = NotHeld]
    /\ (In("CallAcquireReleaseCorrect") /\ last.callee = "AcquireAndSet") =>
          pre["acquireReleaseMu"] = NotHeld
    /\ (In("CallAcquireReleaseCorrect") /\ last.callee = "GetAndRelease") =>
          pre["acquireReleaseMu"] = HeldExclusive
    /\ Returned("CallAcquireReleaseCorrect") =>
          /\ emitted = << >>
          /\ pre["acquireReleaseMu"] = NotHeld
          /\ InBody("CallAcquireReleaseCorrect") = << >>

\* The second call of CallAcquireReleaseCorrect has released the lock.
C9_Witness ==
    /\ At("CallAcquireReleaseCorrect", 2)
    /\ last.callee = "GetAndRelease"
    /\ pre["acquireReleaseMu"] = HeldExclusive
    /\ ls["acquireReleaseMu"] = NotHeld
    /\ emitted = << >>

-----------------------------------------------------------------------------
\* A step that processes an instruction of the function under analysis.
InstructionStep == phase = "run" /\ last' \notin { Return, Skipped }

\* The instruction processed by the step really releases lock l.
ReleasesLock(l) ==
    \/ last'.op \in { "Unlock", "RUnlock" } /\ last'.lock = l
    \/ last'.op = "Call" /\ last'.callee = "GetAndRelease" /\ l = "acquireReleaseMu"

ForcePersists ==
    \A l \in Locks :
        (InstructionStep /\ ls[l] = HeldExclusive /\ ~ReleasesLock(l)) =>
            ls'[l] = HeldExclusive

ForceExampleChecked ==
    /\ last.op = "Force" => ls[last.lock] = HeldExclusive /\ emitted = << >>
    /\ (In("ForceExample") /\ last.line = 263) =>
          /\ pre["mu"] = NotHeld
          /\ Len(emitted) = 1
          /\ Kinds(emitted) = { "AccessViolation" }
    /\ (In("ForceExample") /\ last.line > 263) =>
          /\ ls["mu"] = HeldExclusive
          /\ emitted = << >>
    /\ Returned("ForceExample") =>
          /\ pre["mu"] = HeldExclusive
          /\ Len(emitted) = 1
          /\ emitted[1].msg = UnexpectedLocksHeld
          /\ Len(AtLine(263)) = 1
          /\ AtLine(267) = << >>
          /\ AtLine(270) = << >>

(* C10: a +checklocksforce:L directive sets L to HeldExclusive, and the     *)
(* mode persists at every later point of the function until a real release; *)
(* in ForceExample the write of value before the force yields exactly one   *)
(* AccessViolation, the accesses after it none, and the return exactly one  *)
(* ExitStateViolation "return with unexpected locks held".                  *)
C10_ForcePersistsUntilRelease == [][ForcePersists]_vars /\ []ForceExampleChecked

\* ForceExample has returned with mu still counted as held.
C10_Witness ==
    /\ Returned("ForceExample")
    /\ pre["mu"] = HeldExclusive
    /\ Len(emitted) = 1

-----------------------------------------------------------------------------
\* A step that processes a statement of the function under analysis.
StatementStep == phase = "run" /\ fi' = fi /\ pc' = pc + 1

\* The statement processed by the step is judged by the rule of its kind
\* from the state in front of it.
JudgedByItsRule ==
    /\ last'.op \in { "Read", "Write" } =>
          emitted' = FieldAccessDiags(last', ls) /\ ls' = ls
    /\ last'.op \in { "AtomicRead", "AtomicWrite" } =>
          emitted' = AtomicOpDiags(last', ls) /\ ls' = ls
    /\ last'.op = "Call" =>
          emitted' = CallDiags(last', ls) /\ ls' = CallEffect(last', ls)
    /\ (last'.op = "Write" /\ last'.field \in { "value", "description" }
          /\ ls["mu"] # HeldExclusive) => Len(emitted') = 1

\* In the caller, the statement after a call of the ignored function.
CallerOfIgnoredChecked ==
    (StatementStep /\ last.op = "Call"
       /\ FunctionContract(last.callee).kind = "Ignored") => JudgedByItsRule

IgnoredBodyNotChecked ==
    /\ contract.kind = "Ignored" =>
          /\ pc = 1
          /\ fi = 0 => report = << >>
    /\ last = Skipped => emitted = << >>
    /\ \A n \in LinesOf("FunctionToIgnore") : AtLine(n) = << >>
    /\ (last.op = "Call" /\ FunctionContract(last.callee).kind = "Ignored") =>
          emitted = << >> /\ ls = pre
    /\ Returned("CallIgnoredFunction") => InBody("CallIgnoredFunction") = << >>

(* C11: a function annotated +checklocksignore yields no diagnostic for the *)
(* statements of its body (FunctionToIgnore writes value with mu not held,  *)
(* and so does an arbitrary ignored function), while a function that calls  *)
(* it is analyzed as it would be otherwise: the call yields nothing and     *)
(* leaves the lock state alone, and the caller's next statement is judged   *)
(* by its own rule.                                                         *)
C11_IgnoredBodyYieldsNothing == []IgnoredBodyNotChecked /\ [][CallerOfIgnoredChecked]_vars

\* FunctionToIgnore has been passed over and its write of line 251 not reported.
C11_Witness ==
    /\ last = Skipped
    /\ fi = IndexOf("CallIgnoredFunction")
    /\ pc = 1
    /\ AtLine(251) = << >>
    /\ Len(report) > 0

-----------------------------------------------------------------------------
\* The last step processed a statement (not a directive, not a return).
LastIsStatement == last.op \notin { "Entry", "Return", "Skipped", "Force", "Fail" }

\* The last n elements of sequence q.
Tail_(q, n) == SubSeq(q, Len(q) - n + 1, Len(q))

\* The write processed by the step is one of a guarded field whose lock is
\* not held exclusively.
UnlockedGuardedWrite ==
    /\ last'.op = "Write"
    /\ last'.field \in { "value", "description", "readGuardedValue", "acquireReleaseValue" }
    /\ ls[GuardOf(last'.field)] # HeldExclusive

\* Every step appends what it found and drops nothing, whatever the report
\* already holds; a violating write adds one diagnostic each time.
NothingDroppedOrMerged ==
    /\ phase = "run" => Len(report') >= Len(report)
                        /\ SubSeq(report', 1, Len(report)) = report
    /\ (StatementStep /\ expect = 0) => report' = report \o emitted'
    /\ (StatementStep /\ expect = 0 /\ UnlockedGuardedWrite) =>
          /\ Len(report') = Len(report) + 1
          /\ phase' = "run"

EveryViolationReported ==
    /\ (LastIsStatement /\ expected = 0 /\ phase = "run") =>
          /\ Len(report) >= Len(emitted)
          /\ Tail_(report, Len(emitted)) = emitted
    /\ Returned("IncorrectSetData") =>
          /\ Len(InBody("IncorrectSetData")) = 2
          /\ Kinds(InBody("IncorrectSetData")) = { "AccessViolation" }
          /\ Len(AtLine(58)) = 1 /\ AtLine(58)[1].about = "value"
          /\ Len(AtLine(59)) = 1 /\ AtLine(59)[1].about = "description"
    /\ FileDone => Len(report) = Len(ReadmeOutput)

(* C12: no diagnostic stops or deduplicates the analysis: every step        *)
(* appends what it found to the report and the pass goes on, so every       *)
(* violating statement is reported, twice when it occurs twice;             *)
(* IncorrectSetData gets exactly one AccessViolation per write statement,   *)
(* one at the write of value and one at the write of description.           *)
C12_NoDiagnosticStopsOrDedups == []EveryViolationReported /\ [][NothingDroppedOrMerged]_vars

\* The same violating statement occurred twice and was reported twice.
C12_Witness ==
    /\ fi = 0
    /\ Len(report) = 2
    /\ report[1] = report[2]
    /\ RuleKind(report[1].msg) = "AccessViolation"
    /\ LastIsStatement
    /\ Len(emitted) = 1

-----------------------------------------------------------------------------
\* The last step processed a call of a function that carries no contract, or
\* only +checklocksignore.
LastIsUncontractedCall ==
    last.op = "Call" /\ FunctionContract(last.callee).kind \in { "None", "Ignored" }

\* The tests that call a function whose own body is reported.
CallersOfReported ==
    { "TestIncorrectSetData", "TestAtomicIncorrectWrite", "TestForce" }

(* C13: a call of a function that carries no contract leaves the caller's   *)
(* lock state as it was and yields no diagnostic at the call, also when the *)
(* callee's body holds violations or is ignored: CallIgnoredFunction yields *)
(* nothing, and the tests that call IncorrectSetData,                       *)
(* IncorrectDirectWriteAtomic or ForceExample get nothing at the call.      *)
C13_UncontractedCallHasNoEffect ==
    /\ LastIsUncontractedCall => emitted = << >> /\ ls = pre
    /\ Returned("CallIgnoredFunction") => InBody("CallIgnoredFunction") = << >>
    /\ \A t \in CallersOfReported :
          /\ (In(t) /\ last.op = "Call") => LastIsUncontractedCall
          /\ Returned(t) => InBody(t) = << >>
    /\ Returned("TestForce") =>
          /\ Len(InBody("IncorrectSetData")) = 2
          /\ Len(InBody("IncorrectDirectWriteAtomic")) = 2
          /\ Len(InBody("ForceExample")) = 1

\* TestIncorrectSetData has called IncorrectSetData, whose body was reported.
C13_Witness ==
    /\ At("TestIncorrectSetData", 2)
    /\ last.callee = "IncorrectSetData"
    /\ emitted = << >>
    /\ ls = pre
    /\ Len(InBody("IncorrectSetData")) = 2

\* An unannotated function has been called with a lock held.
C13_WitnessLockHeld ==
    /\ last.op = "Call"
    /\ last.callee = "SetData"
    /\ pre["mu"] = HeldExclusive
    /\ ls = pre

-----------------------------------------------------------------------------
(* C14: the driver's completion status is non-zero whenever the final       *)
(* report holds at least one diagnostic; the status is set when the pass    *)
(* ends and not before.  The report of this repository is not empty, so     *)
(* linting it ends with a non-zero status.                                  *)
C14_NonZeroStatusWhenDiagnostics ==
    /\ phase = "run" => status = -1
    /\ phase = "done" =>
          /\ status \in { 0, 1 }
          /\ Len(report) > 0 => status # 0
    /\ FileDone => Len(report) > 0 /\ status # 0

\* The pass over the package has ended with diagnostics and a failure status.
C14_Witness == FileDone /\ report # << >> /\ status = 1

\* A pass without a diagnostic has ended with the success status.
C14_WitnessClean == phase = "done" /\ report = << >> /\ status = 0

-----------------------------------------------------------------------------
\* The step processes a statement that carries +checklocksfail.
ExpectedFailureStep == StatementStep /\ expect > 0 /\ last'.op \notin { "Force", "Fail" }

\* The expectation is met iff the statement yields as many diagnostics as
\* expected; its diagnostics are not reported; an unmet one is recorded.
ExpectationSettled ==
    ExpectedFailureStep =>
        /\ expect >= 1
        /\ expected' = expect /\ expect' = 0
        /\ report' = report
        /\ unmet' = unmet <=> Len(emitted') = expect
        /\ Len(emitted') # expect =>
              unmet' = Append(unmet, DiagBare(last'.line,
                                              GotWantFailures(Len(emitted'), expect), ""))

ExpectationsReported ==
    /\ (phase = "done" /\ unmet # << >>) =>
          /\ Len(report) >= Len(unmet)
          /\ Tail_(report, Len(unmet)) = unmet
          /\ status = 1
    /\ phase = "run" => \A k \in 1..Len(report) : RuleKind(report[k].msg) # "ExpectationFailure"
    /\ (In("TestDirectCallToSetDataLocked") /\ last.op = "Call"
          /\ last.callee = "setDataLocked") =>
          /\ expected = 1
          /\ Len(emitted) = 1
          /\ Kinds(emitted) = { "CallPreconditionViolation" }
          /\ unmet = << >>
    /\ Returned("TestDirectCallToSetDataLocked") =>
          InBody("TestDirectCallToSetDataLocked") = << >>
    /\ FileDone => unmet = << >> /\ AtLine(TestLine(51)) = << >>

C15_WitnessUnmet ==
    /\ phase = "done"
    /\ unmet = << DiagBare(0, GotWantFailures(1, 2), "") >>
    /\ status = 1

-----------------------------------------------------------------------------
(* The per-function analyses run in parallel.  Each analysis owns its       *)
(* program point, its lock state and its list of findings, and reads the    *)
(* Contract Registry; the lists are merged in function order when every     *)
(* analysis has ended.  MaxParallel consecutive functions of the package    *)
(* are analyzed at a time, their steps interleaved in every order.          *)

Names == { Program[k].name : k \in 1..NumFunctions }

\* The registry as built from the annotations, before any analysis starts.
Registry == [n \in Names |-> FunctionContract(n)]

\* The sequential pass is not under way.
AnalysisIdle ==
    /\ fi = 0
    /\ contract = NoContract
    /\ pc = 1
    /\ ls = [l \in Locks |-> NotHeld]
    /\ pre = [l \in Locks |-> NotHeld]
    /\ report = << >>
    /\ last = Entry
    /\ emitted = << >>
    /\ phase = "done"
    /\ expect = 0
    /\ expected = 0
    /\ unmet = << >>
    /\ status = -1

IsDirective(i) == i.op \in { "Force", "Fail" }

\* The state past instruction i and the diagnostics it yields in state s,
\* the contracts of callees read from registry reg.
Outcome(reg, i, s) ==
    CASE i.op \in { "Lock", "RLock" } ->
           IF s[i.lock] = HeldExclusive
           THEN [ls |-> s, ds |-> << Diag(i.line, AlreadyHeld, i.lock, "", s) >>]
           ELSE [ls |-> [s EXCEPT ![i.lock] =
                            IF i.op = "Lock" THEN HeldExclusive ELSE HeldShared],
                 ds |-> << >>]
      [] i.op \in { "Unlock", "RUnlock" } ->
           [ls |-> [s EXCEPT ![i.lock] = NotHeld],
            ds |-> IF s[i.lock] = NotHeld
                   THEN << Diag(i.line, NotHeldOnRelease, i.lock, "", s) >>
                   ELSE << >>]
      [] i.op \in { "Read", "Write" } -> [ls |-> s, ds |-> FieldAccessDiags(i, s)]
      [] i.op \in { "AtomicRead", "AtomicWrite" } -> [ls |-> s, ds |-> AtomicOpDiags(i, s)]
      [] i.op = "Call" -> [ls |-> CallEffectFor(reg[i.callee], s),
                           ds |-> CallDiagsFor(reg[i.callee], i, s)]
      [] i.op = "Force" -> [ls |-> ForceEffect(i, s), ds |-> << >>]
      [] OTHER -> [ls |-> s, ds |-> << >>]

Window(b) == b..(b + MaxParallel - 1)

\* The analysis of function k before its first step.
Fresh(reg, k) ==
    [pc |-> 1, ls |-> EntryState(reg[Program[k].name]), expect |-> 0,
     out |-> << >>, unmet |-> << >>, done |-> FALSE]

ParInit ==
    /\ AnalysisIdle
    /\ RuntimeIdle
    /\ MergeIdle
    /\ registry = Registry
    /\ base \in 1..(NumFunctions - MaxParallel + 1)
    /\ an = [k \in Window(base) |-> Fresh(registry, k)]
    /\ merged = << >>
    /\ pphase = "analyzing"

\* The analysis of function k processes its next instruction.
AnalyzeStatement(k) ==
    /\ pphase = "analyzing"
    /\ ~an[k].done
    /\ registry[Program[k].name].kind # "Ignored"
    /\ an[k].pc <= Len(Program[k].body)
    /\ LET a == an[k]
           i == Program[k].body[a.pc]
           o == Outcome(registry, i, a.ls)
       IN an' = [an EXCEPT ![k] =
                    [pc |-> a.pc + 1,
                     ls |-> o.ls,
                     expect |-> IF i.op = "Fail" THEN i.count
                                ELSE IF i.op = "Force" THEN a.expect ELSE 0,
                     out |-> IF IsDirective(i) THEN a.out
                             ELSE a.out \o Reported(a.expect, o.ds),
                     unmet |-> IF IsDirective(i) THEN a.unmet
                               ELSE UnmetAfter(a.unmet, a.expect, i.line, o.ds),
                     done |-> FALSE]]
    /\ UNCHANGED << registry, base, merged, pphase, avars, rvars, mvars >>

\* The analysis of function k reaches the return point, or passes over an
\* ignored function, and ends.
AnalyzeReturn(k) ==
    /\ pphase = "analyzing"
    /\ ~an[k].done
    /\ LET a == an[k]
           c == registry[Program[k].name]
       IN /\ c.kind = "Ignored" \/ a.pc = Len(Program[k].body) + 1
          /\ an' = [an EXCEPT ![k] =
                       [a EXCEPT !.out = IF c.kind = "Ignored" THEN a.out
                                         ELSE a.out \o ExitDiags(c, a.ls),
                                 !.unmet = UnmetAfter(a.unmet, a.expect, 0, << >>),
                                 !.expect = 0,
                                 !.done = TRUE]]
    /\ UNCHANGED << registry, base, merged, pphase, avars, rvars, mvars >>

RECURSIVE Findings(_, _)
\* The findings of the first n analyses, in function order.
Findings(b, n) == IF n = 0 THEN << >> ELSE Findings(b, n - 1) \o an[b + n - 1].out

RECURSIVE Unmet(_, _)
Unmet(b, n) == IF n = 0 THEN << >> ELSE Unmet(b, n - 1) \o an[b + n - 1].unmet

\* Every analysis has ended: the lists are merged into the report.
Merge ==
    /\ pphase = "analyzing"
    /\ \A k \in DOMAIN an : an[k].done
    /\ merged' = Findings(base, MaxParallel) \o Unmet(base, MaxParallel)
    /\ pphase' = "merged"
    /\ UNCHANGED << registry, base, an, avars, rvars, mvars >>

ParNext ==
    \/ \E k \in DOMAIN an : AnalyzeStatement(k)
    \/ \E k \in DOMAIN an : AnalyzeReturn(k)
    \/ Merge

SpecParallel == ParInit /\ [][ParNext]_vars

\* The sequential pass and the parallel analyses apply the same rules: a
\* step of the pass has the outcome the parallel analysis computes.
SameRules ==
    [][StatementStep => /\ ls' = Outcome(Registry, last', ls).ls
                        /\ emitted' = Outcome(Registry, last', ls).ds]_vars

\* The diagnostics the README lists for each function of the package.
ReadmeFindings ==
    [k \in 1..NumFunctions |->
        LET lines == { Program[k].body[j].line : j \in 1..Len(Program[k].body) }
        IN SelectSeq(ReadmeOutput,
                     LAMBDA d : \/ d.line \in lines
                                \/ d.line = 0 /\ Program[k].name = "ForceExample")]

FunctionFindings(k) == ReadmeFindings[k]

RECURSIVE WindowFindings(_, _)
\* Those of the first n functions from function b on, in function order.
WindowFindings(b, n) ==
    IF n = 0 THEN << >> ELSE WindowFindings(b, n - 1) \o FunctionFindings(b + n - 1)

ReportIndependentOfSchedule ==
    /\ pphase # "idle" => registry = Registry
    /\ pphase = "merged" => merged = WindowFindings(base, MaxParallel)
    /\ pphase = "analyzing" => merged = << >>
    /\ \A k \in DOMAIN an :
          /\ an[k].done => an[k].out = FunctionFindings(k) /\ an[k].unmet = << >>
          /\ ~an[k].done => Len(an[k].out) <= Len(FunctionFindings(k))
                            /\ an[k].out = SubSeq(FunctionFindings(k), 1, Len(an[k].out))

\* A step belongs to one analysis and leaves the others and the registry alone.
AnalysesDoNotInterfere ==
    /\ registry' = registry
    /\ \A k \in DOMAIN an :
          an'[k] # an[k] => \A j \in DOMAIN an \ { k } : an'[j] = an[j]

(* C16: the final report, contents and order, is the same for every         *)
(* interleaving of the per-function analyses run in parallel (it is the     *)
(* README's output for those functions, in function order), no analysis     *)
(* modifies the Contract Registry, and the findings of a function depend    *)
(* only on its own body and the registry: they are the same whatever the    *)
(* other analyses have done.                                                *)
C16_ReportSameForEverySchedule ==
    []ReportIndependentOfSchedule /\ [][AnalysesDoNotInterfere]_vars

\* The analyses of SetData .. setDataLocked have been merged.
C16_Witness ==
    /\ pphase = "merged"
    /\ base = IndexOf("SetData")
    /\ Len(merged) = 2
    /\ merged[1].line = 58 /\ merged[2].line = 59

\* A later function has been analyzed to its end before an earlier one started.
C16_WitnessOutOfOrder ==
    /\ pphase = "analyzing"
    /\ base = IndexOf("SetData")
    /\ an[base].pc = 1 /\ ~an[base].done
    /\ an[base + 1].done
    /\ Len(an[base + 1].out) = 2

-----------------------------------------------------------------------------
(* The program at run time.  Goroutines call methods of one resource, one   *)
(* statement of one goroutine at a time.  The statements are those of the   *)
(* function bodies above: Lock blocks while the mutex is locked, Unlock of  *)
(* an unlocked mutex ends the program, Write stores an argument, Read loads *)
(* into a local, Call enters the callee and the end of a body returns.      *)

Goroutines == 1..NumGoroutines

\* The resource newTestResource() constructs.
InitialMem ==
    [value |-> 0, description |-> "initial", id |-> "id-0", readGuardedValue |-> 10,
     atomicValue |-> 20, mixedValue |-> 30, acquireReleaseValue |-> 40]

Unlocked == [w |-> FALSE, r |-> 0]

UnlockOfUnlocked == "fatal error: sync: unlock of unlocked mutex"

RUnlockOfUnlocked == "fatal error: sync: RUnlock of unlocked RWMutex"

\* A call a goroutine makes: the method and its arguments.
CallOf(fn, v, d) == [fn |-> fn, v |-> v, d |-> d]

\* The (val, desc) arguments TestCorrectSetData and TestCorrectSetDataWithHelper pass.
Pairs == { << 1, "updated" >>, << 3, "helper update" >> }

\* pr.AcquireAndSet(v) followed by pr.GetAndRelease(), as made in a row by
\* TestAcquireReleaseCorrect.
AcquireThenRelease ==
    << Call("AcquireAndSet", TestLine(173)), Call("GetAndRelease", TestLine(174)) >>

\* The values passed to AcquireAndSet by that sequence.
CycleValues == { 100, 101 }

\* What TestIgnore and TestForce do to their resource: the call, then a read
\* of the field under mu.
IgnoreThenLock == Tail(TestIgnore)

ForceThenLock == Tail(TestForce)

\* The argument TestUnguardedAccess passes to SetID.
NewID == "new-id-5"

\* The arguments TestIncorrectSetData and TestMixedModeCorrectWrite pass.
BadPair == << 2, "bad update" >>

MixedWritten == 31

\* generic.go is told from the other files the same way.
GenericFile == 2000
GenericLine(n) == GenericFile + n

\* mutexasserts.AssertMutexLocked(&m)
AssertLocked(l, n) == Instr("Assert", l, "", "", n)

helperCalledUnderLock ==
    << AssertLocked("mu", GenericLine(163)), Write("value", GenericLine(166)) >>

\* Mutant: CallHelperUnderLockCorrectly calling the helper before it locks mu.
CallHelperBeforeLock ==
    << Call("helperCalledUnderLock", GenericLine(172)), Lock("mu", GenericLine(171)),
       Unlock("mu", GenericLine(173)) >>

CallHelperUnderLockCorrectly ==
    << Lock("mu", GenericLine(171)), Call("helperCalledUnderLock", GenericLine(172)),
       Unlock("mu", GenericLine(173)) >>

\* The methods of GenericResource[T] the goroutines call, and their helpers.
GenericResource ==
    [SetData |-> << Lock("mu", GenericLine(52)), Write("value", GenericLine(53)),
                    Write("description", GenericLine(54)), Unlock("mu", GenericLine(55)) >>,
     GetData |-> << Lock("mu", GenericLine(60)), Read("value", GenericLine(61)),
                    Read("description", GenericLine(62)), Unlock("mu", GenericLine(63)) >>,
     setDataLocked |-> << Write("value", GenericLine(71)),
                          Write("description", GenericLine(72)) >>,
     SetDataWithHelper |-> << Lock("mu", GenericLine(77)),
                              Call("setDataLocked", GenericLine(78)),
                              Unlock("mu", GenericLine(79)) >>,
     WriteMixedCorrect |-> << Lock("mu", GenericLine(116)),
                              AtomicWrite("mixedValue", GenericLine(117)),
                              Unlock("mu", GenericLine(118)) >>,
     helperCalledUnderLock |-> helperCalledUnderLock,
     CallHelperUnderLockCorrectly |-> CallHelperUnderLockCorrectly]

\* The program is built without or with the debug tag, which makes the
\* assertions active.
GenericBuilds == { "generic", "generic-debug" }

\* The value passed to CallHelperUnderLockCorrectly (T is int).
HelperValues == { 5 }

\* The statements of every function: comments are not executed.
Statements ==
    [n \in Names |-> SelectSeq(Program[Index[n]].body, LAMBDA i : ~IsDirective(i))]

BodyOf(fn) ==
    CASE fn = "AcquireThenRelease" -> AcquireThenRelease
      [] fn = "IgnoreThenLock" -> IgnoreThenLock
      [] fn = "ForceThenLock" -> ForceThenLock
      [] scenario \in GenericBuilds -> GenericResource[fn]
      [] OTHER -> Statements[fn]

Scenarios == { "data", "cycle", "acquire", "release", "misuse", "atomic", "unchecked",
               "race", "shared", "frame", "handoff" }

\* The calls the goroutines may make in scenario sc.
Menu(sc) ==
    LET data == { CallOf("SetData", 1, "updated"),
                  CallOf("SetDataWithHelper", 3, "helper update"),
                  CallOf("GetData", 0, ""), CallOf("ReadMixedCorrectLock", 0, ""),
                  CallOf("WriteMixedCorrect", MixedWritten, "") }
        cycle == { CallOf("CallAcquireReleaseCorrect", 0, "") }
                 \cup { CallOf("AcquireThenRelease", v, "") : v \in CycleValues }
        acquire == { CallOf("CallAcquireReleaseIncorrectAcquire", 0, "") }
        release == { CallOf("CallAcquireReleaseIncorrectRelease", 0, ""),
                     CallOf("GetAndRelease", 0, "") }
        atomic == { CallOf("IncrementAtomicCorrect", 0, ""),
                    CallOf("ReadAtomicCorrect", 0, "") }
        unchecked == { CallOf("IgnoreThenLock", 0, ""), CallOf("ForceThenLock", 0, "") }
        race == { CallOf("IncorrectSetData", BadPair[1], BadPair[2]),
                  CallOf("SetData", 1, "updated"), CallOf("GetData", 0, "") }
        shared == { CallOf("GetReadGuardedValueCorrect", 0, ""),
                    CallOf("CallReadDataRLockedCorrect", 0, ""),
                    CallOf("SetData", 1, "updated"), CallOf("SetID", 0, NewID) }
        frame == { CallOf("GetReadGuardedValueCorrect", 0, ""),
                   CallOf("IncrementAtomicCorrect", 0, ""),
                   CallOf("WriteMixedCorrect", MixedWritten, "") }
        handoff == { CallOf("GetReadGuardedValueCorrect", 0, ""),
                     CallOf("CallReadDataRLockedCorrect", 0, ""),
                     CallOf("CallAcquireReleaseCorrect", 0, "") }
        correct == { CallOf("SetData", 1, "updated"), CallOf("GetData", 0, ""),
                     CallOf("SetDataWithHelper", 3, "helper update"),
                     CallOf("GetReadGuardedValueCorrect", 0, ""),
                     CallOf("CallReadDataRLockedCorrect", 0, ""),
                     CallOf("ReadMixedCorrectLock", 0, ""),
                     CallOf("WriteMixedCorrect", MixedWritten, ""),
                     CallOf("CallAcquireReleaseCorrect", 0, "") }
        generic == { CallOf("CallHelperUnderLockCorrectly", v, "") : v \in HelperValues }
                   \cup { CallOf("SetData", 1, "updated"), CallOf("GetData", 0, ""),
                          CallOf("SetDataWithHelper", 3, "helper update"),
                          CallOf("WriteMixedCorrect", MixedWritten, "") }
    IN CASE sc = "data" -> data
         [] sc = "cycle" -> cycle
         [] sc = "acquire" -> acquire
         [] sc = "release" -> release
         [] sc = "misuse" -> acquire \cup release
         [] sc = "atomic" -> atomic
         [] sc = "unchecked" -> unchecked
         [] sc = "race" -> race
         [] sc = "shared" -> shared
         [] sc = "frame" -> frame
         [] sc = "handoff" -> handoff
         [] sc = "correct" -> correct
         [] sc \in GenericBuilds -> generic

\* A goroutine that is in no call and has made none.
IdleG ==
    [fn |-> "", pc |-> 0, up |-> "", upc |-> 0, top |-> "", topc |-> 0, v |-> 0, d |-> "",
     lv |-> 0, ld |-> "", st |-> "idle", done |-> FALSE, incs |-> 0]

\* The program starts in one of the scenarios scs.
RtStart(scs) ==
    /\ AnalysisIdle
    /\ ParallelIdle
    /\ MergeIdle
    /\ scenario \in scs
    /\ mem = InitialMem
    /\ mutex = [l \in Locks |-> Unlocked]
    /\ owner = [l \in Locks |-> 0]
    /\ gor = [g \in Goroutines |-> IdleG]
    /\ fatal = ""
    /\ foreign = { }

RtInit == RtStart(Scenarios)

\* Goroutine g is about to execute a statement whose operation is in ops.
AtInstr(g, ops) ==
    /\ fatal = ""
    /\ gor[g].st = "run"
    /\ gor[g].pc <= Len(BodyOf(gor[g].fn))
    /\ BodyOf(gor[g].fn)[gor[g].pc].op \in ops

Cur(g) == BodyOf(gor[g].fn)[gor[g].pc]

\* The largest and the smallest int32.
MaxInt32 == 2147483647

MinInt32 == -MaxInt32 - 1

\* Mutant: an addition that loses the increment.
AtomicAddLost(old, delta) == old

\* atomic.AddInt32(&f, delta) for a positive delta: int32 addition, which
\* wraps around.
AtomicAdd(old, delta) ==
    IF old > MaxInt32 - delta THEN MinInt32 + (delta - 1 - (MaxInt32 - old))
    ELSE old + delta

\* The value the write statement of line i.line stores: a constant of the
\* source or an argument.
StoredAt(i, a) ==
    CASE i.line = 251 -> -1
      [] i.line = 263 -> -2
      [] i.line = 270 -> "forced"
      [] i.field \in { "description", "id" } -> a.d
      [] OTHER -> a.v

\* The statement of line i.line reads into the blank identifier.
Discarded(i) == i.line = 267

\* The calls of IncrementAtomicCorrect made by goroutines 1..n: returned or
\* under way.
RECURSIVE IncrementsStarted(_)
IncrementsStarted(n) ==
    IF n = 0 THEN 0
    ELSE IncrementsStarted(n - 1) + gor[n].incs
         + (IF gor[n].fn = "IncrementAtomicCorrect" THEN 1 ELSE 0)

\* The first argument the call of line i.line passes.
PassedAt(i, a) ==
    CASE i.line = 225 -> 1
      [] i.line = 236 -> 2
      [] OTHER -> a.v

\* The goroutine calls a method of the resource.
RtBegin(g) ==
    /\ fatal = ""
    /\ gor[g].st = "idle"
    /\ \E c \in Menu(scenario) :
          /\ c.fn = "IncrementAtomicCorrect" => IncrementsStarted(NumGoroutines) < MaxIncrements
          /\ gor' = [gor EXCEPT ![g] =
                        [IdleG EXCEPT !.fn = c.fn, !.pc = 1, !.v = c.v, !.d = c.d,
                                      !.st = "run", !.done = gor[g].done,
                                      !.incs = gor[g].incs]]
    /\ UNCHANGED << scenario, mem, mutex, owner, fatal, foreign, avars, pvars, mvars >>

\* m.Lock(): proceeds when the mutex is free, blocks otherwise.
\* m.RLock(): proceeds when the mutex is not locked for writing.
RtLock(g) ==
    /\ AtInstr(g, { "Lock", "RLock" })
    /\ LET l == Cur(g).lock
       IN /\ ~mutex[l].w
          /\ IF Cur(g).op = "Lock"
             THEN /\ mutex[l].r = 0
                  /\ mutex' = [mutex EXCEPT ![l].w = TRUE]
                  /\ owner' = [owner EXCEPT ![l] = g]
             ELSE /\ mutex' = [mutex EXCEPT ![l].r = @ + 1]
                  /\ UNCHANGED owner
    /\ gor' = [gor EXCEPT ![g].pc = @ + 1]
    /\ UNCHANGED << scenario, mem, fatal, foreign, avars, pvars, mvars >>

\* m.Unlock(): unlocks a locked mutex, whoever locked it; a fatal error if
\* the mutex is not locked.  m.RUnlock(): one reader less; a fatal error if
\* there is none.
RtUnlock(g) ==
    /\ AtInstr(g, { "Unlock", "RUnlock" })
    /\ LET l == Cur(g).lock
       IN IF Cur(g).op = "Unlock"
          THEN IF mutex[l].w
               THEN /\ mutex' = [mutex EXCEPT ![l].w = FALSE]
                    /\ owner' = [owner EXCEPT ![l] = 0]
                    /\ foreign' = IF owner[l] = g THEN foreign ELSE foreign \cup { l }
                    /\ gor' = [gor EXCEPT ![g].pc = @ + 1]
                    /\ UNCHANGED fatal
               ELSE /\ fatal' = UnlockOfUnlocked
                    /\ UNCHANGED << mutex, owner, foreign, gor >>
          ELSE IF mutex[l].r > 0
               THEN /\ mutex' = [mutex EXCEPT ![l].r = @ - 1]
                    /\ gor' = [gor EXCEPT ![g].pc = @ + 1]
                    /\ UNCHANGED << owner, foreign, fatal >>
               ELSE /\ fatal' = RUnlockOfUnlocked
                    /\ UNCHANGED << mutex, owner, foreign, gor >>
    /\ UNCHANGED << scenario, mem, avars, pvars, mvars >>

\* pr.f = arg
RtWrite(g) ==
    /\ AtInstr(g, { "Write" })
    /\ mem' = [mem EXCEPT ![Cur(g).field] = StoredAt(Cur(g), gor[g])]
    /\ gor' = [gor EXCEPT ![g].pc = @ + 1]
    /\ UNCHANGED << scenario, mutex, owner, fatal, foreign, avars, pvars, mvars >>

\* v := pr.f
RtRead(g) ==
    /\ AtInstr(g, { "Read" })
    /\ gor' = [gor EXCEPT ![g] =
                  IF Discarded(Cur(g)) THEN [@ EXCEPT !.pc = @ + 1]
                  ELSE IF Cur(g).field = "description"
                  THEN [@ EXCEPT !.ld = mem[Cur(g).field], !.pc = @ + 1]
                  ELSE [@ EXCEPT !.lv = mem[Cur(g).field], !.pc = @ + 1]]
    /\ UNCHANGED << scenario, mem, mutex, owner, fatal, foreign, avars, pvars, mvars >>

\* atomic.LoadInt32(&pr.f) / atomic.StoreInt32(&pr.f, v) / atomic.AddInt32(&pr.f, 1):
\* one indivisible step each.
RtAtomic(g) ==
    /\ AtInstr(g, { "AtomicRead", "AtomicWrite" })
    /\ IF Cur(g).op = "AtomicRead"
       THEN /\ gor' = [gor EXCEPT ![g] = [@ EXCEPT !.lv = mem[Cur(g).field], !.pc = @ + 1]]
            /\ UNCHANGED mem
       ELSE /\ mem' = [mem EXCEPT ![Cur(g).field] =
                          IF Cur(g).line = 140 THEN AtomicAdd(@, 1) ELSE gor[g].v]
            /\ gor' = [gor EXCEPT ![g].pc = @ + 1]
    /\ UNCHANGED << scenario, mutex, owner, fatal, foreign, avars, pvars, mvars >>

\* pr.callee(args): the callee's body is entered.
RtCall(g) ==
    /\ AtInstr(g, { "Call" })
    /\ gor[g].top = ""
    /\ gor' = [gor EXCEPT ![g] =
                  [@ EXCEPT !.fn = Cur(g).callee, !.pc = 1,
                            !.up = gor[g].fn, !.upc = gor[g].pc,
                            !.top = gor[g].up, !.topc = gor[g].upc,
                            !.v = PassedAt(Cur(g), gor[g])]]
    /\ UNCHANGED << scenario, mem, mutex, owner, fatal, foreign, avars, pvars, mvars >>

\* The end of a body: back to the caller with the locals as the result, or,
\* for a method the goroutine called, the call is over and only that it
\* returned, and how many calls of IncrementAtomicCorrect did, is remembered.
RtReturn(g) ==
    /\ fatal = ""
    /\ gor[g].st = "run"
    /\ gor[g].pc = Len(BodyOf(gor[g].fn)) + 1
    /\ gor' = [gor EXCEPT ![g] =
                  IF gor[g].up # ""
                  THEN [@ EXCEPT !.fn = gor[g].up, !.pc = gor[g].upc + 1,
                                 !.up = gor[g].top, !.upc = gor[g].topc,
                                 !.top = "", !.topc = 0]
                  ELSE [IdleG EXCEPT !.done = TRUE,
                                     !.incs = gor[g].incs +
                                         (IF gor[g].fn = "IncrementAtomicCorrect"
                                          THEN 1 ELSE 0)]]
    /\ UNCHANGED << scenario, mem, mutex, owner, fatal, foreign, avars, pvars, mvars >>

RtNext ==
    \E g \in Goroutines :
        \/ RtBegin(g)
        \/ RtLock(g)
        \/ RtUnlock(g)
        \/ RtWrite(g)
        \/ RtRead(g)
        \/ RtAtomic(g)
        \/ RtCall(g)
        \/ RtReturn(g)

SpecRuntime == RtInit /\ [][RtNext]_vars

\* What a failed assertion ends the program with.
AssertFailed == "panic: mutex is not locked"

\* mutexasserts.AssertMutexLocked(&m): looks at the state of the mutex.  In a
\* build with the debug tag the program ends if the mutex is not locked; in a
\* build without it the assertion does nothing.
RtAssert(g) ==
    /\ AtInstr(g, { "Assert" })
    /\ IF scenario = "generic-debug" /\ ~mutex[Cur(g).lock].w
       THEN fatal' = AssertFailed /\ UNCHANGED gor
       ELSE gor' = [gor EXCEPT ![g].pc = @ + 1] /\ UNCHANGED fatal
    /\ UNCHANGED << scenario, mem, mutex, owner, foreign, avars, pvars, mvars >>

\* The goroutines call methods of a GenericResource[int].
GenericNext == RtNext \/ \E g \in Goroutines : RtAssert(g)

SpecGeneric == RtStart(GenericBuilds) /\ [][GenericNext]_vars

\* The goroutines call the correctly locking methods only, under a fair
\* scheduler: a goroutine that can take a step is not delayed forever, and a
\* goroutine waiting in Lock gets the mutex if the mutex is free again and
\* again (a waiter of a sync.Mutex is not starved).
RtFairInit == RtStart({ "correct" })

\* A step of goroutine g inside a call, other than Lock.
RtProceed(g) ==
    RtUnlock(g) \/ RtWrite(g) \/ RtRead(g) \/ RtAtomic(g) \/ RtCall(g) \/ RtReturn(g)

RtFairness == \A g \in Goroutines : WF_vars(RtProceed(g)) /\ SF_vars(RtLock(g))

SpecRuntimeFair == RtFairInit /\ [][RtNext]_vars /\ RtFairness

-----------------------------------------------------------------------------
(* C17 *)

\* The pairs that are written together: by the constructor or by one call of
\* SetData or SetDataWithHelper.
WrittenTogether == Pairs \cup { << InitialMem.value, InitialMem.description >> }

\* The pair the resource holds.
Stored == << mem.value, mem.description >>

\* Goroutine g is in GetData with both fields read: at its Unlock or after it.
AfterReads(g) ==
    gor[g].st = "run" /\ gor[g].fn = "GetData" /\ gor[g].pc >= Len(GetData)

\* Goroutine g is in SetData or SetDataWithHelper with both fields written:
\* at its final Unlock.
WroteBoth(g) ==
    /\ gor[g].st = "run"
    /\ gor[g].fn \in { "SetData", "SetDataWithHelper" }
    /\ gor[g].pc = Len(BodyOf(gor[g].fn))

\* C17: the pair GetData returns is one pair written together by a single
\* SetData or SetDataWithHelper call or by the constructor, never the value of
\* one writer with the description of another; a writer that releases mu
\* leaves its own (v, d) stored, the stored pair is a whole pair whenever mu is
\* free, and GetData holding mu has read exactly the stored pair, so that
\* SetData(v, d) or SetDataWithHelper(v, d) followed by GetData with no writer
\* in between returns (v, d).  This is for goroutines whose only writers of
\* value and description are SetData and SetDataWithHelper.
C17_GetDataReturnsAWholePair ==
    scenario = "data" =>
        /\ \A g \in Goroutines :
              /\ AfterReads(g) => << gor[g].lv, gor[g].ld >> \in WrittenTogether
              /\ (AfterReads(g) /\ gor[g].pc = Len(GetData))
                    => << gor[g].lv, gor[g].ld >> = Stored
              /\ WroteBoth(g) => Stored = << gor[g].v, gor[g].d >>
        /\ ~mutex["mu"].w => Stored \in WrittenTogether

\* GetData is about to return the pair of a SetDataWithHelper call while a
\* SetData call of another goroutine has written value and not yet description.
C17_Witness ==
    \E g, h \in Goroutines :
        /\ gor[g].st = "run" /\ gor[g].fn = "GetData" /\ gor[g].pc = Len(GetData) + 1
        /\ << gor[g].lv, gor[g].ld >> = << 3, "helper update" >>
        /\ gor[h].st = "run" /\ gor[h].fn = "SetData" /\ AtInstr(h, { "Write" })
        /\ Cur(h).field = "description"
        /\ mem.value = 1 /\ mem.description = "helper update"

-----------------------------------------------------------------------------
(* C18 *)

\* The callers that make the acquire/release cycle.
CycleCallers == { "CallAcquireReleaseCorrect", "AcquireThenRelease" }

\* Goroutine g is between the Lock inside its AcquireAndSet and the Unlock
\* inside its GetAndRelease.
InsideCycle(g) ==
    /\ gor[g].st = "run"
    /\ \/ gor[g].fn = "AcquireAndSet" /\ gor[g].pc > 1
       \/ gor[g].fn \in CycleCallers /\ gor[g].pc = 2
       \/ gor[g].fn = "GetAndRelease" /\ gor[g].pc <= Len(GetAndRelease)

\* Goroutine g has the result of its GetAndRelease: inside it after the read,
\* or back in the caller.
HasCycleResult(g) ==
    /\ gor[g].st = "run"
    /\ \/ gor[g].fn = "GetAndRelease" /\ gor[g].pc > 1
       \/ gor[g].fn \in CycleCallers /\ gor[g].pc > 2

\* C18: when every goroutine runs acquire/release cycles, AcquireAndSet(v)
\* followed by GetAndRelease(), a goroutine holds acquireReleaseMu all the way
\* from its Lock to its Unlock, its GetAndRelease returns the v it passed (1 in
\* CallAcquireReleaseCorrect), no Unlock finds the mutex unlocked, and the
\* mutex is locked only while some goroutine is inside its cycle, so it is
\* free after the cycle.
C18_CycleHoldsTheLockAndReturnsOwnValue ==
    scenario = "cycle" =>
        /\ fatal = ""
        /\ \A g \in Goroutines :
              /\ InsideCycle(g) => mutex["acquireReleaseMu"].w
                                   /\ owner["acquireReleaseMu"] = g
              /\ HasCycleResult(g) => gor[g].lv = gor[g].v
              /\ (HasCycleResult(g) /\ "CallAcquireReleaseCorrect" \in { gor[g].fn, gor[g].up })
                    => gor[g].lv = 1
              /\ ~InsideCycle(g) => owner["acquireReleaseMu"] # g
        /\ mutex["acquireReleaseMu"].w => \E g \in Goroutines : InsideCycle(g)

\* A goroutine that has completed a cycle is about to return 100 from a
\* further one, after another goroutine's cycle stored 1 in between.
C18_Witness ==
    \E g, h \in Goroutines :
        /\ scenario = "cycle"
        /\ gor[g].done
        /\ gor[g].fn = "AcquireThenRelease" /\ gor[g].pc = Len(AcquireThenRelease) + 1
        /\ gor[g].lv = 100
        /\ gor[h].fn = "AcquireAndSet" /\ gor[h].pc > Len(AcquireAndSet)
        /\ mem.acquireReleaseValue = 1

-----------------------------------------------------------------------------
(* C19 *)

\* Goroutine g, in CallAcquireReleaseIncorrectAcquire, is at the Lock inside
\* AcquireAndSet.
AtSecondLock(g) ==
    /\ gor[g].st = "run"
    /\ gor[g].fn = "AcquireAndSet"
    /\ gor[g].up = "CallAcquireReleaseIncorrectAcquire"
    /\ gor[g].pc = 1

\* Goroutine g, in CallAcquireReleaseIncorrectAcquire, is past the Lock inside
\* AcquireAndSet.
PastSecondLock(g) ==
    /\ gor[g].st = "run"
    /\ \/ gor[g].fn = "AcquireAndSet"
          /\ gor[g].up = "CallAcquireReleaseIncorrectAcquire"
          /\ gor[g].pc > 1
       \/ gor[g].fn = "CallAcquireReleaseIncorrectAcquire" /\ gor[g].pc > 2

\* No goroutine has unlocked acquireReleaseMu while another one held it.
NoOtherUnlock == "acquireReleaseMu" \notin foreign

\* C19: as long as no other goroutine unlocks acquireReleaseMu, a call of
\* CallAcquireReleaseIncorrectAcquire never gets past the second Lock, the one
\* inside AcquireAndSet, so it never reaches its final Unlock and never
\* returns: a goroutine at the second Lock leaves it only after such an
\* unlock, and when the goroutines make no other call none of them ever
\* returns.
C19_IncorrectAcquireNeverReturns ==
    /\ [](NoOtherUnlock => \A g \in Goroutines : ~PastSecondLock(g))
    /\ [](scenario = "acquire" => NoOtherUnlock /\ \A g \in Goroutines : ~gor[g].done)
    /\ [][\A g \in Goroutines : AtSecondLock(g) /\ ~AtSecondLock(g)' => ~NoOtherUnlock']_vars

\* One goroutine waits at the second Lock for the mutex it locked itself,
\* the other one waits at the first Lock.
C19_Witness ==
    \E g, h \in Goroutines :
        /\ scenario = "acquire"
        /\ AtSecondLock(g) /\ owner["acquireReleaseMu"] = g
        /\ gor[h].fn = "CallAcquireReleaseIncorrectAcquire" /\ gor[h].pc = 1
        /\ \A k \in Goroutines : ~ENABLED RtLock(k)

-----------------------------------------------------------------------------
(* C20 *)

\* Goroutine g is at the Unlock of GetAndRelease, called directly or through
\* CallAcquireReleaseIncorrectRelease.
AtRelease(g) ==
    /\ gor[g].st = "run"
    /\ gor[g].fn = "GetAndRelease"
    /\ gor[g].up \in { "", "CallAcquireReleaseIncorrectRelease" }
    /\ gor[g].pc = Len(GetAndRelease)

\* C20: GetAndRelease, called directly or through
\* CallAcquireReleaseIncorrectRelease, that reaches its Unlock while
\* acquireReleaseMu is not locked does not get past it: its step ends the
\* program with the error "unlock of unlocked mutex", and no value is
\* returned.  When nothing locks the mutex no call ever returns, and the
\* error is the only way the program ends.
C20_ReleaseOfUnlockedMutexIsAnError ==
    /\ [][\A g \in Goroutines :
            (AtRelease(g) /\ ~mutex["acquireReleaseMu"].w /\ gor'[g] # gor[g]) => FALSE]_vars
    /\ [][fatal' # fatal =>
            /\ fatal' = UnlockOfUnlocked
            /\ gor' = gor]_vars
    /\ [](fatal # "" => /\ fatal = UnlockOfUnlocked
                        /\ \E g \in Goroutines :
                              gor[g].st = "run" /\ gor[g].pc <= Len(BodyOf(gor[g].fn))
                              /\ Cur(g).op = "Unlock" /\ ~mutex[Cur(g).lock].w)
    /\ [](scenario = "release" =>
             /\ ~mutex["acquireReleaseMu"].w
             /\ \A g \in Goroutines : ~gor[g].done)

\* CallAcquireReleaseIncorrectRelease has read the value inside GetAndRelease
\* and the program has ended with the error at the Unlock.
C20_Witness ==
    \E g \in Goroutines :
        /\ scenario = "release"
        /\ AtRelease(g) /\ gor[g].up = "CallAcquireReleaseIncorrectRelease"
        /\ gor[g].lv = InitialMem.acquireReleaseValue
        /\ fatal = UnlockOfUnlocked

-----------------------------------------------------------------------------
(* C23 *)

\* The analysis stands at the entry of a function.
AtEntry == phase = "run" /\ pc = 1

\* C23: the body of a function with a Requires contract is analyzed from an
\* entry state in which the required lock is held in the declared mode and no
\* other lock is held; the writes of value and description in setDataLocked
\* are analyzed with mu HeldExclusive and the read of readGuardedValue in
\* readDataRLocked with rwMu HeldShared, and none of them yields a diagnostic.
C23_RequiresSeedsEntryState ==
    /\ (AtEntry /\ contract.kind = "Requires") =>
          \A l \in Locks : ls[l] = IF l = contract.lock THEN contract.mode ELSE NotHeld
    /\ \A k \in 1..Len(setDataLocked) :
          At("setDataLocked", k) => pre["mu"] = HeldExclusive /\ emitted = << >>
    /\ At("readDataRLocked", 1) => pre["rwMu"] = HeldShared /\ emitted = << >>
    /\ FileDone => \A n \in LinesOf("setDataLocked") \cup LinesOf("readDataRLocked") :
                      AtLine(n) = << >>

\* The read of readGuardedValue in readDataRLocked was analyzed with rwMu held
\* shared, after both writes of setDataLocked were analyzed with mu held.
C23_Witness ==
    /\ At("readDataRLocked", 1)
    /\ pre["rwMu"] = HeldShared
    /\ last.op = "Read"
    /\ contract = Requires("rwMu", HeldShared)

-----------------------------------------------------------------------------
(* C24 *)

\* The last step was the return point (or the skipping) of a function.
AtReturnPoint == last \in { Return, Skipped }

\* The contract of the function whose return point the last step was.
ReturnedContract ==
    IF phase = "done" THEN contract ELSE FunctionContract(Program[fi - 1].name)

\* The functions of resource.go.
ResourceFunctions == { Program[k].name : k \in 1..(NumFunctions - Len(ResourceTest)) }

NoLockHeld == [l \in Locks |-> NotHeld]

\* C24: at every return point the propagated state is compared with the exit
\* state of the function's own contract: an exit-state diagnostic is emitted
\* exactly when they differ.  For every function of resource.go other than
\* ForceExample they are equal and nothing is emitted: AcquireAndSet returns
\* with acquireReleaseMu HeldExclusive, GetAndRelease with it NotHeld,
\* setDataLocked and readDataRLocked with their required lock in the entry
\* mode, and every unannotated function with no lock held.  ForceExample
\* returns with mu held and gets the diagnostic.
C24_ExitStateMatchesContract ==
    /\ last = Return =>
          /\ (emitted = << >>) <=> (pre = ExitState(ReturnedContract))
          /\ \A k \in 1..Len(emitted) :
                emitted[k].msg \in { UnexpectedLocksHeld, RequiredLockNotHeld }
    /\ \A name \in ResourceFunctions \ { "ForceExample" } :
          (AtReturnPoint /\ fi = IndexOf(name) + 1 /\ pc = 1) =>
              /\ emitted = << >>
              /\ FunctionContract(name).kind # "Ignored" =>
                    pre = ExitState(FunctionContract(name))
              /\ FunctionContract(name).kind = "None" => pre = NoLockHeld
    /\ Returned("AcquireAndSet") =>
          pre = [NoLockHeld EXCEPT !["acquireReleaseMu"] = HeldExclusive]
    /\ Returned("GetAndRelease") => pre = NoLockHeld
    /\ Returned("setDataLocked") => pre = [NoLockHeld EXCEPT !["mu"] = HeldExclusive]
    /\ Returned("readDataRLocked") => pre = [NoLockHeld EXCEPT !["rwMu"] = HeldShared]
    /\ Returned("ForceExample") =>
          /\ pre = [NoLockHeld EXCEPT !["mu"] = HeldExclusive]
          /\ Len(emitted) = 1 /\ emitted[1].msg = UnexpectedLocksHeld

\* AcquireAndSet has returned with the lock held and no diagnostic.
C24_Witness ==
    /\ Returned("AcquireAndSet")
    /\ pre["acquireReleaseMu"] = HeldExclusive
    /\ emitted = << >>

\* The arbitrary function, with a Releases contract, returned with the lock
\* still held and got the exit-state diagnostic.
C24_WitnessMismatch ==
    /\ fi = 0 /\ last = Return
    /\ contract.kind = "Releases"
    /\ pre[contract.lock] = HeldExclusive
    /\ Len(emitted) = 1

-----------------------------------------------------------------------------
(* Control-flow merge points.  The states of the incoming edges are joined  *)
(* two at a time, in any order.                                             *)

\* The weaker of two modes.
Weaker(a, b) == IF ModeRank(a) <= ModeRank(b) THEN a ELSE b

\* Mutant: a join that trusts the stronger of two modes.
JoinStronger(s, t) ==
    [l \in Locks |-> IF ModeRank(s[l]) >= ModeRank(t[l]) THEN s[l] ELSE t[l]]

\* The join of two LockStates, per lock: the common mode if they agree, the
\* weaker of the two if they disagree.
Join(s, t) == [l \in Locks |-> IF s[l] = t[l] THEN s[l] ELSE Weaker(s[l], t[l])]

\* The LockStates an edge can carry: only an RWMutex is held shared.
EdgeStates ==
    { s \in [Locks -> Modes] : \A l \in Locks : s[l] = HeldShared => LockKind(l) = "RWMutex" }

MergeInit ==
    /\ AnalysisIdle
    /\ ParallelIdle
    /\ RuntimeIdle
    /\ incoming \in UNION { [1..n -> EdgeStates] : n \in 1..MaxPreds }
    /\ pending = DOMAIN incoming
    /\ joined = << >>

\* The first edge is taken: its state is the state so far.
TakeEdge(k) ==
    /\ joined = << >>
    /\ k \in pending
    /\ joined' = incoming[k]
    /\ pending' = pending \ { k }
    /\ UNCHANGED << incoming, avars, pvars, rvars >>

\* A further edge is joined with the state so far.
JoinEdge(k) ==
    /\ joined # << >>
    /\ k \in pending
    /\ joined' = Join(joined, incoming[k])
    /\ pending' = pending \ { k }
    /\ UNCHANGED << incoming, avars, pvars, rvars >>

MergeNext == \E k \in 1..MaxPreds : TakeEdge(k) \/ JoinEdge(k)

SpecMerge == MergeInit /\ [][MergeNext]_vars

-----------------------------------------------------------------------------
(* C25 *)

\* The edges combined so far.
Combined == DOMAIN incoming \ pending

\* The modes of lock l on the edges combined so far.
IncomingModes(l) == { incoming[k][l] : k \in Combined }

\* C25: at a merge point the joined mode of each lock is the common mode when
\* all incoming edges agree, and otherwise the weakest of the incoming modes
\* (HeldExclusive with NotHeld gives NotHeld); so a lock is HeldExclusive
\* after the merge only if it is HeldExclusive on every incoming edge, and the
\* result is the same in whatever order the edges are combined.
C25_JoinIsWeakestIncomingMode ==
    joined # << >> =>
        \A l \in Locks :
            /\ joined[l] \in IncomingModes(l)
            /\ \A m \in IncomingModes(l) : ModeRank(joined[l]) <= ModeRank(m)
            /\ IncomingModes(l) = { joined[l] } \/ Cardinality(IncomingModes(l)) > 1
            /\ ({ HeldExclusive, NotHeld } \subseteq IncomingModes(l)) => joined[l] = NotHeld
            /\ joined[l] = HeldExclusive => \A k \in Combined : incoming[k][l] = HeldExclusive

\* All edges are combined; mu is HeldExclusive on one edge and NotHeld on
\* another and NotHeld after the merge, rwMu is HeldExclusive, HeldShared and
\* HeldExclusive and HeldShared after it, acquireReleaseMu is HeldExclusive on
\* every edge and after it.
C25_Witness ==
    /\ joined # << >>
    /\ pending = { }
    /\ Len(incoming) = MaxPreds
    /\ { HeldExclusive, NotHeld } \subseteq { incoming[k]["mu"] : k \in DOMAIN incoming }
    /\ joined["mu"] = NotHeld
    /\ { incoming[k]["rwMu"] : k \in DOMAIN incoming } = { HeldExclusive, HeldShared }
    /\ joined["rwMu"] = HeldShared
    /\ joined["acquireReleaseMu"] = HeldExclusive

-----------------------------------------------------------------------------
(* C26 *)

LastIsDirectRelease == last.op \in { "Unlock", "RUnlock" }

\* The state in front of the instruction a step processes is the state the
\* previous instruction left.
ContinuesFromState == InstructionStep => pre' = ls

\* C26: a direct Unlock or RUnlock of a lock whose mode is NotHeld yields one
\* ReleaseViolation; after any direct release, violating or not, the lock is
\* NotHeld and the other locks are as before; the following statement is
\* analyzed from that state.  The Unlock of GetAndRelease finds the lock held
\* and GetAndRelease returns with it NotHeld.
C26_DirectReleaseLeavesNotHeld ==
    /\ [](LastIsDirectRelease =>
             /\ ls = [pre EXCEPT ![last.lock] = NotHeld]
             /\ pre[last.lock] = NotHeld =>
                   Len(emitted) = 1 /\ Kinds(emitted) = { "ReleaseViolation" }
             /\ pre[last.lock] # NotHeld => emitted = << >>)
    /\ [](Returned("GetAndRelease") =>
             /\ pre["acquireReleaseMu"] = NotHeld
             /\ AtLine(217) = << >>)
    /\ [][ContinuesFromState /\ (LastIsDirectRelease /\ InstructionStep => JudgedByItsRule)]_vars

\* After an Unlock of mu that was not held and was reported, the write of
\* value is analyzed with mu NotHeld and reported as well.
C26_Witness ==
    /\ fi = 0 /\ pc = 3
    /\ last.op = "Write" /\ last.field = "value"
    /\ pre["mu"] = NotHeld
    /\ Len(report) = 2
    /\ Kinds(<< report[1] >>) = { "ReleaseViolation" }
    /\ Kinds(emitted) = { "AccessViolation" }

-----------------------------------------------------------------------------
(* C27 *)

LastIsDirectAcquire == last.op \in { "Lock", "RLock" }

\* C27: a direct Lock of a lock whose mode is already HeldExclusive yields
\* one AcquireViolation and leaves the mode HeldExclusive; a direct Lock from
\* NotHeld moves the lock to HeldExclusive and a direct RLock from NotHeld
\* moves it to HeldShared, without a diagnostic; no other lock changes.  The
\* Lock of SetData and the RLock of GetReadGuardedValueCorrect are of the
\* second kind.
C27_DirectAcquire ==
    /\ LastIsDirectAcquire =>
          /\ \A l \in Locks \ { last.lock } : ls[l] = pre[l]
          /\ pre[last.lock] = HeldExclusive =>
                /\ Len(emitted) = 1 /\ Kinds(emitted) = { "AcquireViolation" }
                /\ ls[last.lock] = HeldExclusive
          /\ pre[last.lock] = NotHeld =>
                /\ emitted = << >>
                /\ ls[last.lock] = IF last.op = "Lock" THEN HeldExclusive ELSE HeldShared
    /\ At("SetData", 1) =>
          /\ last.op = "Lock" /\ pre["mu"] = NotHeld
          /\ ls["mu"] = HeldExclusive /\ emitted = << >>
    /\ At("GetReadGuardedValueCorrect", 1) =>
          /\ last.op = "RLock" /\ pre["rwMu"] = NotHeld
          /\ ls["rwMu"] = HeldShared /\ emitted = << >>

\* mu was locked twice in a row: the second Lock is reported, the first not,
\* and mu is still HeldExclusive.
C27_Witness ==
    /\ fi = 0 /\ pc = 3
    /\ last.op = "Lock" /\ last.lock = "mu"
    /\ pre["mu"] = HeldExclusive /\ ls["mu"] = HeldExclusive
    /\ contract.kind = "None"
    /\ Len(report) = 1
    /\ Kinds(emitted) = { "AcquireViolation" }

\* rwMu was locked for reading from NotHeld.
C27_WitnessShared ==
    /\ At("GetReadGuardedValueCorrect", 1)
    /\ ls["rwMu"] = HeldShared

-----------------------------------------------------------------------------
(* C21 *)

\* The calls of IncrementAtomicCorrect by goroutines 1..n that have added:
\* those that returned and those that are past their AddInt32.
RECURSIVE IncrementsAdded(_)
IncrementsAdded(n) ==
    IF n = 0 THEN 0
    ELSE IncrementsAdded(n - 1) + gor[n].incs
         + (IF gor[n].fn = "IncrementAtomicCorrect" /\ gor[n].pc > 1 THEN 1 ELSE 0)

\* The calls of IncrementAtomicCorrect by goroutines 1..n that have returned.
RECURSIVE IncrementsReturned(_)
IncrementsReturned(n) ==
    IF n = 0 THEN 0 ELSE IncrementsReturned(n - 1) + gor[n].incs

\* No call of IncrementAtomicCorrect is under way.
NoIncrementUnderWay == \A g \in Goroutines : gor[g].fn # "IncrementAtomicCorrect"

\* The step is the atomic load of ReadAtomicCorrect by goroutine g.
LoadsAtomicValue(g) ==
    /\ gor[g].fn = "ReadAtomicCorrect" /\ gor[g].pc = 1
    /\ gor'[g].fn = "ReadAtomicCorrect" /\ gor'[g].pc = 2

\* C21: no increment of atomicValue is lost.  Whatever the interleaving, when
\* only IncrementAtomicCorrect writes it, atomicValue is the constructor's
\* value plus the number of calls that have added; the value ReadAtomicCorrect
\* loads is that number, and when k calls have returned and none is under way
\* it is the constructor's value plus k.
C21_NoIncrementLost ==
    /\ [](scenario = "atomic" =>
             mem.atomicValue = InitialMem.atomicValue + IncrementsAdded(NumGoroutines))
    /\ [][\A g \in Goroutines :
            (scenario = "atomic" /\ LoadsAtomicValue(g)) =>
                /\ gor'[g].lv = InitialMem.atomicValue + IncrementsAdded(NumGoroutines)
                /\ NoIncrementUnderWay =>
                      gor'[g].lv = InitialMem.atomicValue + IncrementsReturned(NumGoroutines)]_vars

\* ReadAtomicCorrect has loaded the initial value plus 3 after three calls
\* of IncrementAtomicCorrect, made by different goroutines, have returned.
C21_Witness ==
    \E g, h \in Goroutines :
        /\ g # h
        /\ gor[g].fn = "ReadAtomicCorrect" /\ gor[g].pc = 2
        /\ gor[g].incs > 0 /\ gor[h].incs > 0
        /\ IncrementsReturned(NumGoroutines) = 3
        /\ gor[g].lv = InitialMem.atomicValue + 3

-----------------------------------------------------------------------------
(* C22 *)

\* The LockState the analysis has past instruction k of the function called name.
RECURSIVE AnalyzedState(_, _)
AnalyzedState(name, k) ==
    IF k = 0 THEN EntryState(FunctionContract(name))
    ELSE Outcome(Registry, Program[Index[name]].body[k], AnalyzedState(name, k - 1)).ls

\* The LockState the analysis has at the return of the function called name.
AnalyzedExit(name) == AnalyzedState(name, Len(Program[Index[name]].body))

\* Goroutine g is inside ForceExample or FunctionToIgnore.
InUnchecked(g) ==
    gor[g].st = "run" /\ gor[g].fn \in { "ForceExample", "FunctionToIgnore" }

\* Goroutine g is between the Lock and the Unlock of mu that follow the call.
InTestLock(g) ==
    /\ gor[g].st = "run"
    /\ gor[g].fn \in { "IgnoreThenLock", "ForceThenLock" }
    /\ gor[g].pc \in 3..4

\* Goroutine g is back from the call and at the Lock of mu that follows it.
AtTestLock(g) ==
    /\ gor[g].st = "run"
    /\ gor[g].fn \in { "IgnoreThenLock", "ForceThenLock" }
    /\ gor[g].pc = 2

\* No goroutine but g is in a call.
Alone(g) == \A h \in Goroutines \ { g } : gor[h].st = "idle"

\* No goroutine but g has made a call.
OnlyCaller(g) == \A h \in Goroutines \ { g } : gor[h] = IdleG

\* The step stores what the write of its line stores.
WritesTakeEffect ==
    \A g \in Goroutines :
        (AtInstr(g, { "Write" }) /\ gor'[g].pc = gor[g].pc + 1 /\ gor'[g].fn = gor[g].fn) =>
            /\ Cur(g).line = 251 => mem'.value = -1
            /\ Cur(g).line = 263 => mem'.value = -2
            /\ Cur(g).line = 270 => mem'.description = "forced"

\* C22: ForceExample and FunctionToIgnore never acquire mu at run time: a
\* goroutine inside them has not locked mu, mu is locked only between the
\* Lock and Unlock a caller makes after them, so that when either returns and
\* no other goroutine is in a call mu is unlocked and the caller's Lock is
\* not blocked; their writes take effect (value = -1 after FunctionToIgnore,
\* value = -2 and description = "forced" after ForceExample); and the
\* analysis has mu HeldExclusive at the return of ForceExample.
C22_UncheckedFunctionsTakeNoLock ==
    /\ [](\A g \in Goroutines :
             /\ InUnchecked(g) => owner["mu"] # g
             /\ (InUnchecked(g) /\ gor[g].fn = "ForceExample"
                   /\ gor[g].pc = Len(BodyOf("ForceExample")) + 1) =>
                   AnalyzedExit("ForceExample")["mu"] = HeldExclusive
             /\ (AtTestLock(g) /\ Alone(g)) =>
                   ~mutex["mu"].w /\ ENABLED RtLock(g)
             /\ (AtTestLock(g) /\ OnlyCaller(g) /\ gor[g].fn = "IgnoreThenLock") =>
                   mem.value = -1
             /\ (AtTestLock(g) /\ OnlyCaller(g) /\ gor[g].fn = "ForceThenLock") =>
                   mem.value = -2 /\ mem.description = "forced")
    /\ [](scenario = "unchecked" =>
             (mutex["mu"].w => \E g \in Goroutines : InTestLock(g) /\ owner["mu"] = g))
    /\ [][WritesTakeEffect]_vars

\* After ForceExample, the goroutine has locked mu and read "forced", while
\* another goroutine is inside FunctionToIgnore and has written value.
C22_Witness ==
    \E g, h \in Goroutines :
        /\ gor[g].fn = "ForceThenLock" /\ gor[g].pc = 4
        /\ owner["mu"] = g
        /\ gor[g].ld = "forced"
        /\ gor[h].fn = "FunctionToIgnore" /\ gor[h].pc = 2
        /\ mem.value = -1

-----------------------------------------------------------------------------
(* C28 *)

\* Goroutine g is inside IncorrectSetData.
InIncorrectSetData(g) == gor[g].st = "run" /\ gor[g].fn = "IncorrectSetData"

\* C28: IncorrectSetData gives no mutual exclusion: a goroutine inside it has
\* not locked mu, and its writes of value and description are never blocked,
\* whether or not another goroutine holds mu.  (That such a write happens
\* while SetData or GetData holds mu, and that GetData then returns a pair no
\* single call wrote, are the reachable states C28_WitnessWriteUnderLock and
\* C28_Witness.)
C28_IncorrectSetDataNotExcluded ==
    \A g \in Goroutines :
        InIncorrectSetData(g) =>
            /\ owner["mu"] # g
            /\ gor[g].pc <= Len(BodyOf("IncorrectSetData")) =>
                  /\ Cur(g).op = "Write"
                  /\ ENABLED RtWrite(g)

\* GetData is about to return the value IncorrectSetData wrote with the
\* description of the constructor: a pair no single call wrote.
C28_Witness ==
    \E g, h \in Goroutines :
        /\ gor[g].st = "run" /\ gor[g].fn = "GetData" /\ gor[g].pc = Len(GetData) + 1
        /\ << gor[g].lv, gor[g].ld >> \notin WrittenTogether \cup { BadPair }
        /\ << gor[g].lv, gor[g].ld >> = << BadPair[1], InitialMem.description >>
        /\ InIncorrectSetData(h)

\* IncorrectSetData is about to write description while another goroutine,
\* in SetData, holds mu and has written its value.
C28_WitnessWriteUnderLock ==
    \E g, h \in Goroutines :
        /\ InIncorrectSetData(h) /\ AtInstr(h, { "Write" }) /\ Cur(h).field = "description"
        /\ gor[g].fn = "SetData" /\ AtInstr(g, { "Write" }) /\ Cur(g).field = "description"
        /\ mutex["mu"].w /\ owner["mu"] = g
        /\ ENABLED RtWrite(h)

-----------------------------------------------------------------------------
(* C29 *)

\* The methods that lock mu around their accesses.
MuMethods == { "SetData", "GetData", "SetDataWithHelper", "ReadMixedCorrectLock",
               "WriteMixedCorrect" }

\* Goroutine g is about to read or write value, description or mixedValue.
AtMuAccess(g) ==
    /\ AtInstr(g, { "Read", "Write", "AtomicRead", "AtomicWrite" })
    /\ Cur(g).field \in { "value", "description", "mixedValue" }

\* Goroutine g is between pr.mu.Lock() and pr.mu.Unlock().
InMuSection(g) ==
    /\ gor[g].st = "run"
    /\ \/ gor[g].fn \in MuMethods /\ gor[g].pc > 1 /\ gor[g].pc <= Len(BodyOf(gor[g].fn))
       \/ gor[g].up \in MuMethods

\* C29: when the goroutines call only SetData, GetData, SetDataWithHelper,
\* ReadMixedCorrectLock and WriteMixedCorrect, every read or write of value,
\* description and mixedValue is made by a goroutine that holds mu, and at
\* most one goroutine is between pr.mu.Lock() and pr.mu.Unlock().
C29_MuExcludes ==
    scenario = "data" =>
        /\ \A g \in Goroutines :
              /\ AtMuAccess(g) => InMuSection(g)
              /\ InMuSection(g) => mutex["mu"].w /\ owner["mu"] = g
        /\ Cardinality({ g \in Goroutines : InMuSection(g) }) <= 1

\* WriteMixedCorrect is about to store mixedValue holding mu while
\* SetDataWithHelper waits at its Lock.
C29_Witness ==
    \E g, h \in Goroutines :
        /\ scenario = "data"
        /\ gor[g].fn = "WriteMixedCorrect" /\ AtInstr(g, { "AtomicWrite" })
        /\ owner["mu"] = g
        /\ gor[h].fn = "SetDataWithHelper" /\ gor[h].pc = 1 /\ gor[h].st = "run"
        /\ ~ENABLED RtLock(h)

-----------------------------------------------------------------------------
(* C30 *)

\* The methods that take the read lock of rwMu.
RwMuMethods == { "GetReadGuardedValueCorrect", "CallReadDataRLockedCorrect" }

\* Goroutine g is between pr.rwMu.RLock() and pr.rwMu.RUnlock().
InRwMuSection(g) ==
    /\ gor[g].st = "run"
    /\ \/ gor[g].fn \in RwMuMethods /\ gor[g].pc > 1 /\ gor[g].pc <= Len(BodyOf(gor[g].fn))
       \/ gor[g].up \in RwMuMethods

\* Goroutine g holds some lock.
HoldsSomeLock(g) == InRwMuSection(g) \/ \E l \in Locks : owner[l] = g

\* Goroutine g is in a call.
InCall(g) == gor[g].st = "run"

\* Every call returns.
EveryCallReturns == \A g \in Goroutines : InCall(g) ~> ~InCall(g)

\* A goroutine that is in no call holds no lock, every locked mutex was locked
\* by a goroutine that is in a call, and rwMu has one reader per goroutine
\* between RLock and RUnlock.
LocksReleasedOnReturn ==
    /\ \A g \in Goroutines : ~InCall(g) => ~HoldsSomeLock(g)
    /\ \A l \in Locks : mutex[l].w <=> (owner[l] \in Goroutines /\ InCall(owner[l]))
    /\ \A l \in Locks :
          mutex[l].r = IF l = "rwMu"
                       THEN Cardinality({ g \in Goroutines : InRwMuSection(g) }) ELSE 0

\* A goroutine about to acquire a lock holds none.
NoNestedAcquire ==
    \A g \in Goroutines : AtInstr(g, { "Lock", "RLock" }) => ~HoldsSomeLock(g)

\* Some goroutine that is in a call can take a step.
NotStuck ==
    (\E g \in Goroutines : InCall(g)) =>
        \E g \in Goroutines : InCall(g) /\ ENABLED (RtProceed(g) \/ RtLock(g))

\* C30: goroutines that call SetData, GetData, SetDataWithHelper,
\* GetReadGuardedValueCorrect, CallReadDataRLockedCorrect,
\* ReadMixedCorrectLock, WriteMixedCorrect and CallAcquireReleaseCorrect never
\* deadlock: under fair scheduling every call eventually returns, a method
\* that has returned has released every lock it acquired, no method acquires
\* one of mu, rwMu, acquireReleaseMu while holding another, and the program
\* never ends in a fatal error.
C30_CorrectMethodsNeverDeadlock ==
    /\ EveryCallReturns
    /\ [](LocksReleasedOnReturn /\ NoNestedAcquire /\ NotStuck /\ fatal = "")

\* SetData waits at its Lock while GetData holds mu; both goroutines have
\* completed calls before.
C30_Witness ==
    \E g, h \in Goroutines :
        /\ scenario = "correct"
        /\ gor[g].fn = "SetData" /\ gor[g].pc = 1 /\ InCall(g) /\ gor[g].done
        /\ ~ENABLED RtLock(g)
        /\ gor[h].fn = "GetData" /\ owner["mu"] = h /\ gor[h].done
        /\ mem.acquireReleaseValue = 1
        /\ mem.mixedValue = MixedWritten

-----------------------------------------------------------------------------
(* C31 *)

\* The functions of resource.go with a statement that stores to field f.
WritersOf(f) ==
    { n \in ResourceFunctions :
        \E j \in 1..Len(Statements[n]) :
            /\ Statements[n][j].op \in { "Write", "AtomicWrite" }
            /\ Statements[n][j].field = f }

\* Goroutine g is about to return from GetReadGuardedValueCorrect or
\* CallReadDataRLockedCorrect with v as the result.
ReaderReturns(g) ==
    /\ gor[g].st = "run"
    /\ gor[g].fn \in RwMuMethods
    /\ gor[g].up = ""
    /\ gor[g].pc = Len(BodyOf(gor[g].fn)) + 1

\* Goroutine g is at pr.rwMu.RLock().
AtRLock(g) == AtInstr(g, { "RLock" }) /\ Cur(g).lock = "rwMu"

\* C31: readGuardedValue is written by the constructor only: no function of
\* resource.go has a statement that stores to it, so in every interleaving of
\* calls (SetData, SetID, IncrementAtomicCorrect, WriteMixedCorrect and the
\* acquire/release methods among them) the field keeps the initialReadValue
\* given to NewProtectedResource, GetReadGuardedValueCorrect and
\* CallReadDataRLockedCorrect return that value, and a goroutine at
\* pr.rwMu.RLock() is never blocked, however many readers hold rwMu.
C31_ReadGuardedValueIsNeverWritten ==
    /\ WritersOf("readGuardedValue") = { }
    /\ mem.readGuardedValue = InitialMem.readGuardedValue
    /\ \A g \in Goroutines :
          /\ ReaderReturns(g) => gor[g].lv = InitialMem.readGuardedValue
          /\ AtRLock(g) => ENABLED RtLock(g)

\* Two readers hold rwMu at once, one in GetReadGuardedValueCorrect with the
\* field read and one in readDataRLocked called by CallReadDataRLockedCorrect,
\* after SetData and SetID have written their fields.
C31_Witness ==
    \E g, h \in Goroutines :
        /\ gor[g].st = "run" /\ gor[g].fn = "GetReadGuardedValueCorrect"
        /\ AtInstr(g, { "RUnlock" })
        /\ gor[g].lv = InitialMem.readGuardedValue
        /\ gor[h].st = "run" /\ gor[h].fn = "readDataRLocked"
        /\ gor[h].up = "CallReadDataRLockedCorrect"
        /\ mutex["rwMu"].r = 2
        /\ mem.value = 1 /\ mem.id = NewID

-----------------------------------------------------------------------------
(* C32 *)

\* Goroutine g is in helperCalledUnderLock.
InHelper(g) == gor[g].st = "run" /\ gor[g].fn = "helperCalledUnderLock"

\* Goroutine g is in CallHelperUnderLockCorrectly from just before its call of
\* the helper until just after the helper has returned.
AroundHelper(g) ==
    /\ gor[g].st = "run"
    /\ \/ gor[g].fn = "CallHelperUnderLockCorrectly"
          /\ gor[g].pc \in { 2, Len(CallHelperUnderLockCorrectly) }
       \/ gor[g].up = "CallHelperUnderLockCorrectly"

\* Goroutine g stores to gr.value in helperCalledUnderLock.
HelperWrites(g) ==
    /\ InHelper(g)
    /\ AtInstr(g, { "Write" })
    /\ gor'[g].pc = gor[g].pc + 1

\* C32: mutexasserts.AssertMutexLocked(&gr.mu) in helperCalledUnderLock holds
\* on every call made through CallHelperUnderLockCorrectly, whatever other
\* goroutines do with SetData, GetData, SetDataWithHelper and
\* WriteMixedCorrect: gr.mu is locked, and locked by the calling goroutine, from
\* before the helper is entered until after it has returned, the assertion
\* finds the mutex locked, the program does not end in a failed assertion, and
\* the helper's store to gr.value is made while the caller holds gr.mu.
C32_AssertMutexLockedHolds ==
    /\ [](/\ fatal = ""
          /\ \A g \in Goroutines :
                /\ AroundHelper(g) => mutex["mu"].w /\ owner["mu"] = g
                /\ InHelper(g) => AroundHelper(g)
                /\ AtInstr(g, { "Assert" }) => mutex[Cur(g).lock].w)
    /\ [][\A g \in Goroutines :
              HelperWrites(g) =>
                  /\ owner["mu"] = g /\ owner'["mu"] = g
                  /\ mem'.value = gor[g].v]_vars

\* In a build with the debug tag the helper has passed its assertion and
\* stored its argument while SetData of another goroutine waits for gr.mu,
\* after SetDataWithHelper and WriteMixedCorrect have run.
C32_Witness ==
    \E g, h \in Goroutines :
        /\ scenario = "generic-debug"
        /\ InHelper(g) /\ gor[g].pc = Len(helperCalledUnderLock) + 1
        /\ gor[g].v \in HelperValues /\ mem.value = gor[g].v
        /\ owner["mu"] = g
        /\ gor[h].st = "run" /\ gor[h].fn = "SetData" /\ gor[h].pc = 1
        /\ ~ENABLED RtLock(h)
        /\ mem.description = "helper update"
        /\ mem.mixedValue = MixedWritten

====
